---- MODULE Spec2Model ----
(***************************************************************************)
(* ExG-Lab real-time pipeline: LSLStreamHandler (devices/stream.py),       *)
(* RateController and ui_broadcast_loop (processing/rate_control.py) and   *)
(* the device endpoints of main.py.                                        *)
(*                                                                         *)
(* A sample is identified by its sequence number at the source; its LSL    *)
(* timestamp is that number.  Rings and logs hold sample numbers.          *)
(***************************************************************************)
EXTENDS Integers, Sequences, FiniteSets, TLC

\* ------------------------------------------------------------------------
\* Program constants and bounds
\* ------------------------------------------------------------------------

\* keys of stream_handlers, in dict insertion order
DeviceOrder == <<"Muse_1", "Muse_2">>

Devices == {DeviceOrder[i] : i \in 1..Len(DeviceOrder)}

\* the device the handler-level specification exercises
StreamDevices == {"Muse_1"}

\* channel labels read from the stream description (frontal pair)
channel_names == <<"AF7", "AF8">>

\* buffer_duration default, seconds
BufferDuration == 4

\* maxlen of timestamps_buffer before start()
DefaultMaxlen == 1024

\* nominal_srate() of the stream in the handler-level specification (Hz)
StreamRate == 1

\* nominal_srate() of the streams in the pipeline specifications (Hz)
PipeRate == 3

\* samples a source emits beyond the ring capacity of its handler
MaxExtra == 2

\* samples waiting in the inlet queue
MaxQueue == 3

\* calc threads one RateController creates in one behaviour
MaxCalcThreads == 2

\* last reading of the wall clock
MaxTime == 1

\* max_samples of the pull loop's pull_chunk (256, scaled down)
PullMaxSamples == 2

\* max_samples of the flush's pull_chunk (1000, scaled down)
FlushMaxSamples == 2

\* durations asked of get_recent_data, in half seconds (0 s .. 4 s)
HalfSeconds == {0, 1, 2, 4, 8}

\* samples the source emits in a behaviour of the timestamp specification
MaxStamped == 4

\* ------------------------------------------------------------------------
\* Pure helpers
\* ------------------------------------------------------------------------

Min(a, b) == IF a < b THEN a ELSE b

Range(s) == {s[i] : i \in 1..Len(s)}

\* the 'device' entries of a device_data list
DevicesOf(items) == {items[i].device : i \in 1..Len(items)}

\* the item of device d in a device_data list
ItemOf(items, d) == items[CHOOSE i \in 1..Len(items) : items[i].device = d]

Take(s, n) == SubSeq(s, 1, Min(n, Len(s)))

Drop(s, n) == SubSeq(s, Min(n, Len(s)) + 1, Len(s))

\* deque(maxlen=m).extend(items): append right, discard from the left
DequeExtendUnbounded(buf, items, m) == buf \o items

DequeExtend(buf, items, m) ==
    LET s == buf \o items
    IN  IF Len(s) > m THEN SubSeq(s, Len(s) - m + 1, Len(s)) ELSE s

\* Python list[-n:] for n >= 0: -0 is 0, so n = 0 yields the whole list
PySliceLast(list, n) ==
    IF n = 0 \/ n >= Len(list) THEN list
    ELSE SubSeq(list, Len(list) - n + 1, Len(list))

\* int(duration * sample_rate), duration given in half seconds
SamplesNeeded(half, rate) == (half * rate) \div 2

\* int(buffer_duration * sample_rate)
MaxSamples(rate) == BufferDuration * rate

\* ------------------------------------------------------------------------
\* State
\* ------------------------------------------------------------------------

VARIABLES
    \* pull source of each device
    srcq,               \* samples waiting in the inlet queue
    produced,           \* samples emitted by the source so far
    srcAlive,           \* the source still emits
    \* LSLStreamHandler fields
    hphase,             \* "created" | "flushing" | "started" | "failed"
    inlet,              \* self.inlet is not None
    sample_rate,        \* self.sample_rate (0 = None)
    rolling_buffers,    \* channel -> ring; empty dict before start()
    timestamps_buffer,  \* timestamp ring
    ts_maxlen,          \* timestamps_buffer.maxlen
    recording_buffer,   \* recording log
    running,            \* self.running
    lock,               \* self.lock owner: "free" | "pull" | "info"
    \* pull thread
    ppc,                \* "none" | "loop" | "pull" | "acquire" | "extend_ch"
                        \* | "extend_ts" | "extend_rec" | "release"
                        \* | "sleep" | "backoff" | "exit"
    chunk,              \* chunk held by the pull thread
    pidx,               \* next channel index to extend
    stopc,              \* stop() caller: "idle" | "joining"
    \* history of each handler
    flushMark,          \* samples emitted when the flush saw the queue empty
    nCh,                \* samples ever added to each channel ring
    nTs,                \* samples ever added to the timestamp ring
    nRec,               \* samples ever added to the recording log
    obs,                \* result of the last public read
    \* main.py globals
    stream_handlers,    \* keys of the handler map shared with the controller
    rc_exists,          \* rate_controller is not None
    ctl,                \* request in progress: "idle" | "joining"
    \* RateController fields
    rc_running,         \* self.running
    latest_metrics,     \* device -> frame (the latest-frame slot)
    metrics_lock,       \* self.metrics_lock owner: 0 (free) or a calc thread
    nthreads,           \* calc threads created so far; the last is calc_thread
    \* calc threads
    cpc,                \* "none" | "loop" | "fill" | "data" | "process"
                        \* | "acquire" | "update" | "release" | "sleep"
                        \* | "backoff" | "exit"
    citer,              \* keys the tick's dict iterator was created over
    cidx,               \* position of the iterator
    fill_ratio,         \* local fill_ratio, as (len, maxlen)
    device_data,        \* local device_data: devices with a 4 s snapshot
    new_metrics,        \* local new_metrics: device -> frame
    upd_left,           \* devices dict.update has still to write
    \* ui_broadcast_loop
    upc,                \* "none" | "read" | "send" | "sleep"
    snapshot,           \* last result of get_latest_metrics()
    \* wall clock and history
    now,                \* time.time()
    committed,          \* the slot as left by the last completed merge
    \* MultiScaleProcessor.process_multiple_devices, one call
    e_input,            \* device_data: list of [device, data]
    e_timescale,        \* timescale, in half seconds
    e_fut,              \* the futures, in submission order
    e_results,          \* results: device -> result
    e_pc,               \* "idle" | "collect" | "done"
    \* SessionManager fields
    current_session,    \* [active, id, protocol, devices]; not active = None
    phase_index,        \* self.phase_index
    current_phase,      \* self.current_phase: the value of the SessionPhase
    session_ret,        \* "none", or what the last start_session /
                        \* stop_session returned: "id", "None", "True",
                        \* "False"
    \* subscriber transport
    sent,               \* last message handed to broadcast()
    \* DataRecorder fields
    is_recording,       \* self.is_recording
    csv_files,          \* device -> handle; TRUE while the handle is open
    buffers,            \* device -> batch of samples not yet written
    sample_counts,      \* device -> samples counted
    buffer_lock,        \* 0 when free, else the thread that holds it
    \* the session directory
    disk,               \* device -> data rows of its CSV file
    metadata,           \* [ended, sample_counts] of metadata.json
    \* a thread inside record_sample / record_samples_batch
    rec_pc,             \* "idle" | "wait" | "locked"
    rec_dev,            \* its device_name
    rec_n,              \* number of samples it hands over
    \* the caller of stop_recording
    stop_pc,            \* "idle" | "flush" | "close" | "ret"
    stop_ret,           \* value returned by the last stop_recording
    session_id,         \* self.session_id; 0 is None
    start_ret,          \* "none", or the last start_recording's outcome
    \* history
    accepted,           \* device -> samples appended to a batch, in order
    io_faults,          \* file-system errors raised so far
    \* application lifecycle
    shut,               \* position of lifespan's cleanup
    tlog,               \* components stopped by the last teardown
    \* DeviceManager and the connect_device requests
    connected_processes, \* stream names with a muselsl subprocess
    conn_pc,            \* device -> "idle" | "polling"
    conn_polls,         \* device -> resolve attempts of the request
    conn_ret            \* device -> outcome of the last request

hvars == <<srcq, produced, srcAlive, hphase, inlet, sample_rate,
           rolling_buffers, timestamps_buffer, ts_maxlen, recording_buffer,
           running, lock, ppc, chunk, pidx, stopc,
           flushMark, nCh, nTs, nRec, obs>>

cvars == <<stream_handlers, rc_exists, ctl, rc_running, latest_metrics,
           metrics_lock, nthreads, cpc, citer, cidx, fill_ratio, device_data,
           new_metrics, upd_left, upc, snapshot, now, committed>>

evars == <<e_input, e_timescale, e_fut, e_results, e_pc>>

\* everything but the handlers and the controller
svars == <<current_session, phase_index, current_phase, session_ret>>

rvars == <<is_recording, csv_files, buffers, sample_counts, buffer_lock,
           disk, metadata, rec_pc, rec_dev, rec_n, stop_pc, stop_ret,
           session_id, start_ret, accepted, io_faults>>

dvars == <<connected_processes, conn_pc, conn_polls, conn_ret>>

lvars == <<shut, tlog, dvars>>

xvars == <<evars, svars, sent, rvars, lvars>>

vars == <<hvars, cvars, xvars>>

NoObs == [op |-> "none"]

\* state after LSLStreamHandler.__init__ for every device
HandlerInit ==
    /\ srcq = [d \in Devices |-> <<>>]
    /\ produced = [d \in Devices |-> 0]
    /\ srcAlive = [d \in Devices |-> TRUE]
    /\ hphase = [d \in Devices |-> "created"]
    /\ inlet = [d \in Devices |-> FALSE]
    /\ sample_rate = [d \in Devices |-> 0]
    /\ rolling_buffers = [d \in Devices |-> <<>>]
    /\ timestamps_buffer = [d \in Devices |-> <<>>]
    /\ ts_maxlen = [d \in Devices |-> DefaultMaxlen]
    /\ recording_buffer = [d \in Devices |-> <<>>]
    /\ running = [d \in Devices |-> FALSE]
    /\ lock = [d \in Devices |-> "free"]
    /\ ppc = [d \in Devices |-> "none"]
    /\ chunk = [d \in Devices |-> <<>>]
    /\ pidx = [d \in Devices |-> 1]
    /\ stopc = [d \in Devices |-> "idle"]
    /\ flushMark = [d \in Devices |-> 0]
    /\ nCh = [d \in Devices |-> [c \in Range(channel_names) |-> 0]]
    /\ nTs = [d \in Devices |-> 0]
    /\ nRec = [d \in Devices |-> 0]
    /\ obs = NoObs

CalcThreads == 1..MaxCalcThreads

\* a dict with no entries
EmptyMap == [d \in {} |-> 0]

\* no RateController constructed, no publish task created
NoController ==
    /\ stream_handlers = {}
    /\ rc_exists = FALSE
    /\ ctl = "idle"
    /\ rc_running = FALSE
    /\ latest_metrics = EmptyMap
    /\ metrics_lock = 0
    /\ nthreads = 0
    /\ cpc = [t \in CalcThreads |-> "none"]
    /\ citer = [t \in CalcThreads |-> <<>>]
    /\ cidx = [t \in CalcThreads |-> 1]
    /\ fill_ratio = [t \in CalcThreads |-> <<0, 1>>]
    /\ device_data = [t \in CalcThreads |-> <<>>]
    /\ new_metrics = [t \in CalcThreads |-> EmptyMap]
    /\ upd_left = [t \in CalcThreads |-> {}]
    /\ upc = "none"
    /\ snapshot = EmptyMap
    /\ now = 0
    /\ committed = EmptyMap

\* no process_multiple_devices call in progress
EngineIdle ==
    /\ e_input = <<>>
    /\ e_timescale = 2
    /\ e_fut = <<>>
    /\ e_results = EmptyMap
    /\ e_pc = "idle"

\* current_session = None
NoSession ==
    [active |-> FALSE, id |-> 0, protocol |-> "none", devices |-> {},
     start_n |-> EmptyMap]

\* state after SessionManager.__init__
SessionIdle ==
    /\ current_session = NoSession
    /\ phase_index = 0
    /\ current_phase = "idle"
    /\ session_ret = "none"

\* nothing handed to the subscriber transport yet
NothingSent == [any |-> FALSE, frames |-> <<>>, feedback_disabled |-> FALSE]

\* value of stop_recording's return before any call
NoReturn == [none |-> TRUE, paths |-> {}]

\* state after DataRecorder.__init__, with an empty session directory and
\* no thread inside the recorder
RecorderIdle ==
    /\ is_recording = FALSE
    /\ csv_files = EmptyMap
    /\ buffers = EmptyMap
    /\ sample_counts = EmptyMap
    /\ buffer_lock = 0
    /\ disk = EmptyMap
    /\ metadata = [ended |-> FALSE, sample_counts |-> EmptyMap]
    /\ rec_pc = "idle"
    /\ rec_dev = "none"
    /\ rec_n = 0
    /\ stop_pc = "idle"
    /\ stop_ret = NoReturn
    /\ session_id = 0
    /\ start_ret = "none"
    /\ accepted = EmptyMap
    /\ io_faults = 0

\* the application is serving requests and nothing was torn down yet
LifeIdle ==
    /\ shut = "up"
    /\ tlog = <<>>
    /\ connected_processes = stream_handlers
    /\ conn_pc = [d \in Devices |-> "idle"]
    /\ conn_polls = [d \in Devices |-> 0]
    /\ conn_ret = [d \in Devices |-> "none"]

\* the parts of the program a specification leaves out are at rest
RestIdle ==
    /\ EngineIdle
    /\ SessionIdle
    /\ sent = NothingSent
    /\ RecorderIdle
    /\ LifeIdle

\* ------------------------------------------------------------------------
\* Pull source
\* ------------------------------------------------------------------------

\* samples the source of d emits in one behaviour
ProduceLimit(d) == MaxSamples(sample_rate[d]) + MaxExtra

\* the device emits one sample into the inlet queue
Produce(d) ==
    /\ srcAlive[d]
    /\ produced[d] < ProduceLimit(d)
    /\ Len(srcq[d]) < MaxQueue
    /\ produced' = [produced EXCEPT ![d] = @ + 1]
    /\ srcq' = [srcq EXCEPT ![d] = Append(@, produced[d] + 1)]
    /\ UNCHANGED <<cvars, xvars>>
    /\ UNCHANGED <<srcAlive, hphase, inlet, sample_rate, rolling_buffers,
                   timestamps_buffer, ts_maxlen, recording_buffer, running,
                   lock, ppc, chunk, pidx, stopc, flushMark, nCh, nTs,
                   nRec, obs>>

\* inlet.pull_chunk(timeout=0.0, max_samples=m): what is waiting, at most m
PullChunkOf(q, m) == Take(q, m)

\* ------------------------------------------------------------------------
\* LSLStreamHandler.start
\* ------------------------------------------------------------------------

\* start(): stream resolved, inlet created, metadata read, buffers
\* initialised under the lock; the flush follows
StartConnect(d, rate) ==
    /\ hphase[d] = "created"
    /\ lock[d] = "free"
    /\ hphase' = [hphase EXCEPT ![d] = "flushing"]
    /\ inlet' = [inlet EXCEPT ![d] = TRUE]
    /\ sample_rate' = [sample_rate EXCEPT ![d] = rate]
    /\ rolling_buffers' = [rolling_buffers EXCEPT ![d] =
                             [c \in Range(channel_names) |-> <<>>]]
    /\ timestamps_buffer' = [timestamps_buffer EXCEPT ![d] = <<>>]
    /\ ts_maxlen' = [ts_maxlen EXCEPT ![d] = MaxSamples(rate)]
    /\ recording_buffer' = [recording_buffer EXCEPT ![d] = <<>>]
    /\ UNCHANGED <<cvars, xvars>>
    /\ UNCHANGED <<srcq, produced, srcAlive, running, lock, ppc, chunk,
                   pidx, stopc, flushMark, nCh, nTs, nRec, obs>>

\* one pull of _flush_inlet_buffer that stops the loop at the first pull
FlushPullOnce(d) ==
    /\ hphase[d] = "flushing"
    /\ srcq' = [srcq EXCEPT ![d] = Drop(@, FlushMaxSamples)]
    /\ flushMark' = [flushMark EXCEPT ![d] = produced[d]]
    /\ hphase' = [hphase EXCEPT ![d] = "started"]
    /\ running' = [running EXCEPT ![d] = TRUE]
    /\ ppc' = [ppc EXCEPT ![d] = "loop"]
    /\ UNCHANGED <<cvars, xvars>>
    /\ UNCHANGED <<produced, srcAlive, inlet, sample_rate, rolling_buffers,
                   timestamps_buffer, ts_maxlen, recording_buffer, lock,
                   chunk, pidx, stopc, nCh, nTs, nRec, obs>>

\* one pull of _flush_inlet_buffer; on the empty pull the loop breaks and
\* start() sets running and starts the pull thread
FlushPull(d) ==
    /\ hphase[d] = "flushing"
    /\ LET got == PullChunkOf(srcq[d], FlushMaxSamples)
       IN  IF got = <<>>
           THEN /\ flushMark' = [flushMark EXCEPT ![d] = produced[d]]
                /\ hphase' = [hphase EXCEPT ![d] = "started"]
                /\ running' = [running EXCEPT ![d] = TRUE]
                /\ ppc' = [ppc EXCEPT ![d] = "loop"]
                /\ UNCHANGED srcq
           ELSE /\ srcq' = [srcq EXCEPT ![d] = Drop(@, Len(got))]
                /\ UNCHANGED <<flushMark, hphase, running, ppc>>
    /\ UNCHANGED <<cvars, xvars>>
    /\ UNCHANGED <<produced, srcAlive, inlet, sample_rate, rolling_buffers,
                   timestamps_buffer, ts_maxlen, recording_buffer, lock,
                   chunk, pidx, stopc, nCh, nTs, nRec, obs>>

\* ------------------------------------------------------------------------
\* LSLStreamHandler._pull_loop
\* ------------------------------------------------------------------------

\* while self.running
PullLoopCheck(d) ==
    /\ ppc[d] = "loop"
    /\ ppc' = [ppc EXCEPT ![d] = IF running[d] THEN "pull" ELSE "exit"]
    /\ UNCHANGED <<cvars, xvars>>
    /\ UNCHANGED <<srcq, produced, srcAlive, hphase, inlet, sample_rate,
                   rolling_buffers, timestamps_buffer, ts_maxlen,
                   recording_buffer, running, lock, chunk, pidx, stopc,
                   flushMark, nCh, nTs, nRec, obs>>

\* chunk, timestamps = self.inlet.pull_chunk(timeout=0.0, max_samples=256);
\* a call on a released inlet (None) or a failing source raises and the
\* except branch backs off
PullChunk(d, raises) ==
    /\ ppc[d] = "pull"
    /\ IF raises \/ ~inlet[d]
       THEN /\ ppc' = [ppc EXCEPT ![d] = "backoff"]
            /\ UNCHANGED <<srcq, chunk>>
       ELSE LET got == PullChunkOf(srcq[d], PullMaxSamples)
            IN  /\ srcq' = [srcq EXCEPT ![d] = Drop(@, Len(got))]
                /\ chunk' = [chunk EXCEPT ![d] = got]
                /\ ppc' = [ppc EXCEPT ![d] =
                             IF got = <<>> THEN "sleep" ELSE "acquire"]
    /\ UNCHANGED <<cvars, xvars>>
    /\ UNCHANGED <<produced, srcAlive, hphase, inlet, sample_rate,
                   rolling_buffers, timestamps_buffer, ts_maxlen,
                   recording_buffer, running, lock, pidx, stopc,
                   flushMark, nCh, nTs, nRec, obs>>

\* the append block entered without taking self.lock
PullAcquireNoLock(d) ==
    /\ ppc[d] = "acquire"
    /\ ppc' = [ppc EXCEPT ![d] = "extend_ch"]
    /\ pidx' = [pidx EXCEPT ![d] = 1]
    /\ UNCHANGED <<cvars, xvars>>
    /\ UNCHANGED <<srcq, produced, srcAlive, hphase, inlet, sample_rate,
                   rolling_buffers, timestamps_buffer, ts_maxlen,
                   recording_buffer, running, lock, chunk, stopc,
                   flushMark, nCh, nTs, nRec, obs>>

\* with self.lock:
PullAcquire(d) ==
    /\ ppc[d] = "acquire"
    /\ lock[d] = "free"
    /\ lock' = [lock EXCEPT ![d] = "pull"]
    /\ ppc' = [ppc EXCEPT ![d] = "extend_ch"]
    /\ pidx' = [pidx EXCEPT ![d] = 1]
    /\ UNCHANGED <<cvars, xvars>>
    /\ UNCHANGED <<srcq, produced, srcAlive, hphase, inlet, sample_rate,
                   rolling_buffers, timestamps_buffer, ts_maxlen,
                   recording_buffer, running, chunk, stopc,
                   flushMark, nCh, nTs, nRec, obs>>

\* self.rolling_buffers[ch_name].extend(chunk[:, i]) for the next channel
PullExtendChannel(d) ==
    /\ ppc[d] = "extend_ch"
    /\ LET c == channel_names[pidx[d]]
       IN  /\ rolling_buffers' = [rolling_buffers EXCEPT ![d][c] =
                  DequeExtend(@, chunk[d], MaxSamples(sample_rate[d]))]
           /\ nCh' = [nCh EXCEPT ![d][c] = @ + Len(chunk[d])]
    /\ IF pidx[d] = Len(channel_names)
       THEN /\ ppc' = [ppc EXCEPT ![d] = "extend_ts"]
            /\ pidx' = [pidx EXCEPT ![d] = 1]
       ELSE /\ pidx' = [pidx EXCEPT ![d] = @ + 1]
            /\ UNCHANGED ppc
    /\ UNCHANGED <<cvars, xvars>>
    /\ UNCHANGED <<srcq, produced, srcAlive, hphase, inlet, sample_rate,
                   timestamps_buffer, ts_maxlen, recording_buffer, running,
                   lock, chunk, stopc, flushMark, nTs, nRec, obs>>

\* self.timestamps_buffer.extend(timestamps)
PullExtendTimestamps(d) ==
    /\ ppc[d] = "extend_ts"
    /\ timestamps_buffer' = [timestamps_buffer EXCEPT ![d] =
                               DequeExtend(@, chunk[d], ts_maxlen[d])]
    /\ nTs' = [nTs EXCEPT ![d] = @ + Len(chunk[d])]
    /\ ppc' = [ppc EXCEPT ![d] = "extend_rec"]
    /\ UNCHANGED <<cvars, xvars>>
    /\ UNCHANGED <<srcq, produced, srcAlive, hphase, inlet, sample_rate,
                   rolling_buffers, ts_maxlen, recording_buffer, running,
                   lock, chunk, pidx, stopc, flushMark, nCh, nRec, obs>>

\* for j, ts in enumerate(timestamps): self.recording_buffer.append(...)
PullExtendRecording(d) ==
    /\ ppc[d] = "extend_rec"
    /\ recording_buffer' = [recording_buffer EXCEPT ![d] = @ \o chunk[d]]
    /\ nRec' = [nRec EXCEPT ![d] = @ + Len(chunk[d])]
    /\ ppc' = [ppc EXCEPT ![d] = "release"]
    /\ UNCHANGED <<cvars, xvars>>
    /\ UNCHANGED <<srcq, produced, srcAlive, hphase, inlet, sample_rate,
                   rolling_buffers, timestamps_buffer, ts_maxlen, running,
                   lock, chunk, pidx, stopc, flushMark, nCh, nTs, obs>>

\* end of the with block
PullRelease(d) ==
    /\ ppc[d] = "release"
    /\ lock' = [lock EXCEPT ![d] = IF @ = "pull" THEN "free" ELSE @]
    /\ ppc' = [ppc EXCEPT ![d] = "sleep"]
    /\ UNCHANGED <<cvars, xvars>>
    /\ UNCHANGED <<srcq, produced, srcAlive, hphase, inlet, sample_rate,
                   rolling_buffers, timestamps_buffer, ts_maxlen,
                   recording_buffer, running, chunk, pidx, stopc,
                   flushMark, nCh, nTs, nRec, obs>>

\* time.sleep(sleep_time), or time.sleep(0.1) in the except branch
PullSleep(d) ==
    /\ ppc[d] \in {"sleep", "backoff"}
    /\ ppc' = [ppc EXCEPT ![d] = "loop"]
    /\ UNCHANGED <<cvars, xvars>>
    /\ UNCHANGED <<srcq, produced, srcAlive, hphase, inlet, sample_rate,
                   rolling_buffers, timestamps_buffer, ts_maxlen,
                   recording_buffer, running, lock, chunk, pidx, stopc,
                   flushMark, nCh, nTs, nRec, obs>>

\* ------------------------------------------------------------------------
\* LSLStreamHandler.stop
\* ------------------------------------------------------------------------

\* stop(): running is cleared and the caller waits in join(timeout=2.0)
StopRequest(d) ==
    /\ running[d]
    /\ stopc[d] = "idle"
    /\ running' = [running EXCEPT ![d] = FALSE]
    /\ stopc' = [stopc EXCEPT ![d] = "joining"]
    /\ UNCHANGED <<cvars, xvars>>
    /\ UNCHANGED <<srcq, produced, srcAlive, hphase, inlet, sample_rate,
                   rolling_buffers, timestamps_buffer, ts_maxlen,
                   recording_buffer, lock, ppc, chunk, pidx,
                   flushMark, nCh, nTs, nRec, obs>>

\* join returns (thread ended, or the 2 s ran out); the inlet is released
StopJoin(d, timedOut) ==
    /\ stopc[d] = "joining"
    /\ timedOut \/ ppc[d] = "exit"
    /\ inlet' = [inlet EXCEPT ![d] = FALSE]
    /\ stopc' = [stopc EXCEPT ![d] = "idle"]
    /\ UNCHANGED <<cvars, xvars>>
    /\ UNCHANGED <<srcq, produced, srcAlive, hphase, sample_rate,
                   rolling_buffers, timestamps_buffer, ts_maxlen,
                   recording_buffer, running, lock, ppc, chunk, pidx,
                   flushMark, nCh, nTs, nRec, obs>>

\* ------------------------------------------------------------------------
\* LSLStreamHandler public reads
\* ------------------------------------------------------------------------

\* the return value None of get_recent_data
NoneData(d) ==
    [none |-> TRUE, data |-> [c \in DOMAIN rolling_buffers[d] |-> <<>>]]

\* what get_recent_data computes once it holds the lock
RecentData(d, n) ==
    IF Len(timestamps_buffer[d]) < n
    THEN NoneData(d)
    ELSE [none |-> FALSE,
          data |-> [c \in DOMAIN rolling_buffers[d] |->
                       PySliceLast(rolling_buffers[d][c], n)]]

\* len(timestamps_buffer) / maxlen as the pair (len, maxlen)
FillRatio(d) == <<Len(timestamps_buffer[d]), ts_maxlen[d]>>

\* fill_ratio < 0.9
BelowReady(fill) == 10 * fill[1] < 9 * fill[2]

\* get_recent_data(duration)
GetRecentData(d, half) ==
    /\ hphase[d] = "started"
    /\ lock[d] = "free"
    /\ LET n == SamplesNeeded(half, sample_rate[d])
       IN  obs' = [op |-> "recent", dev |-> d, n |-> n,
                   res |-> RecentData(d, n)]
    /\ UNCHANGED <<cvars, xvars>>
    /\ UNCHANGED <<srcq, produced, srcAlive, hphase, inlet, sample_rate,
                   rolling_buffers, timestamps_buffer, ts_maxlen,
                   recording_buffer, running, lock, ppc, chunk, pidx, stopc,
                   flushMark, nCh, nTs, nRec>>

\* get_buffer_fill_ratio()
GetBufferFillRatio(d) ==
    /\ lock[d] = "free"
    /\ obs' = [op |-> "fill", dev |-> d, res |-> FillRatio(d)]
    /\ UNCHANGED <<cvars, xvars>>
    /\ UNCHANGED <<srcq, produced, srcAlive, hphase, inlet, sample_rate,
                   rolling_buffers, timestamps_buffer, ts_maxlen,
                   recording_buffer, running, lock, ppc, chunk, pidx, stopc,
                   flushMark, nCh, nTs, nRec>>

\* get_data_age_ms(): the latest timestamp the age is computed from
GetDataAgeMs(d) ==
    /\ lock[d] = "free"
    /\ obs' = [op |-> "age", dev |-> d,
               res |-> IF timestamps_buffer[d] = <<>>
                       THEN [none |-> TRUE, latest |-> 0]
                       ELSE [none |-> FALSE,
                             latest |-> timestamps_buffer[d]
                                          [Len(timestamps_buffer[d])]]]
    /\ UNCHANGED <<cvars, xvars>>
    /\ UNCHANGED <<srcq, produced, srcAlive, hphase, inlet, sample_rate,
                   rolling_buffers, timestamps_buffer, ts_maxlen,
                   recording_buffer, running, lock, ppc, chunk, pidx, stopc,
                   flushMark, nCh, nTs, nRec>>

\* get_recording_buffer() returning the log and emptying it
GetRecordingBufferDrain(d) ==
    /\ lock[d] = "free"
    /\ obs' = [op |-> "recording", dev |-> d, res |-> recording_buffer[d]]
    /\ recording_buffer' = [recording_buffer EXCEPT ![d] = <<>>]
    /\ UNCHANGED <<cvars, xvars>>
    /\ UNCHANGED <<srcq, produced, srcAlive, hphase, inlet, sample_rate,
                   rolling_buffers, timestamps_buffer, ts_maxlen,
                   running, lock, ppc, chunk, pidx, stopc,
                   flushMark, nCh, nTs, nRec>>

\* get_recording_buffer(): a copy of the log
GetRecordingBuffer(d) ==
    /\ lock[d] = "free"
    /\ obs' = [op |-> "recording", dev |-> d, res |-> recording_buffer[d]]
    /\ UNCHANGED <<cvars, xvars>>
    /\ UNCHANGED <<srcq, produced, srcAlive, hphase, inlet, sample_rate,
                   rolling_buffers, timestamps_buffer, ts_maxlen,
                   recording_buffer, running, lock, ppc, chunk, pidx, stopc,
                   flushMark, nCh, nTs, nRec>>

\* clear_recording_buffer(): self.recording_buffer = [] under the lock
ClearRecordingBuffer(d) ==
    /\ lock[d] = "free"
    /\ recording_buffer' = [recording_buffer EXCEPT ![d] = <<>>]
    /\ obs' = [op |-> "clear", dev |-> d]
    /\ UNCHANGED <<cvars, xvars>>
    /\ UNCHANGED <<srcq, produced, srcAlive, hphase, inlet, sample_rate,
                   rolling_buffers, timestamps_buffer, ts_maxlen,
                   running, lock, ppc, chunk, pidx, stopc,
                   flushMark, nCh, nTs, nRec>>

\* ------------------------------------------------------------------------
\* Handler-level specification: one device, its source, start(), the pull
\* thread, stop() and the public reads
\* ------------------------------------------------------------------------

StreamInit == HandlerInit /\ NoController /\ RestIdle

StreamNext ==
    \E d \in StreamDevices :
        \/ Produce(d)
        \/ StartConnect(d, StreamRate)
        \/ FlushPull(d)
        \/ PullLoopCheck(d)
        \/ \E raises \in BOOLEAN : PullChunk(d, raises)
        \/ PullAcquire(d)
        \/ PullExtendChannel(d)
        \/ PullExtendTimestamps(d)
        \/ PullExtendRecording(d)
        \/ PullRelease(d)
        \/ PullSleep(d)
        \/ StopRequest(d)
        \/ \E timedOut \in BOOLEAN : StopJoin(d, timedOut)
        \/ \E half \in HalfSeconds : GetRecentData(d, half)
        \/ GetBufferFillRatio(d)
        \/ GetDataAgeMs(d)
        \/ GetRecordingBuffer(d)
        \/ ClearRecordingBuffer(d)

SpecStream == StreamInit /\ [][StreamNext]_vars

\* ------------------------------------------------------------------------
\* Properties of the handler
\* ------------------------------------------------------------------------

\* every sample held by a handler structure
Buffered(d) ==
    Range(timestamps_buffer[d]) \cup Range(recording_buffer[d])
        \cup UNION {Range(rolling_buffers[d][c]) :
                        c \in DOMAIN rolling_buffers[d]}

C8_BoundAndAlignment ==
    \A d \in Devices :
        (hphase[d] # "created" /\ lock[d] = "free") =>
            \A c \in DOMAIN rolling_buffers[d] :
                /\ Len(rolling_buffers[d][c]) <= MaxSamples(sample_rate[d])
                /\ Len(rolling_buffers[d][c]) = Len(timestamps_buffer[d])

\* C8 witness: the rings overflowed and an iteration raised
C8_Witness ==
    \E d \in Devices :
        /\ lock[d] = "free"
        /\ ppc[d] = "backoff"
        /\ nTs[d] > MaxSamples(sample_rate[d])
        /\ Len(timestamps_buffer[d]) = MaxSamples(sample_rate[d])

\* the last n elements of s, none for n = 0
LastN(s, n) == SubSeq(s, Len(s) - Min(n, Len(s)) + 1, Len(s))

\* C9 as claimed: get_recent_data(d) returns exactly the n most recently
\* appended samples per channel when at least n are buffered (also for
\* n = 0), and None otherwise.
C9_SnapshotExactness ==
    [][\A d \in Devices : \A half \in HalfSeconds :
          GetRecentData(d, half) =>
              LET n == SamplesNeeded(half, sample_rate[d])
              IN  obs'.res =
                    IF Len(timestamps_buffer[d]) >= n
                    THEN [none |-> FALSE,
                          data |-> [c \in DOMAIN rolling_buffers[d] |->
                                       LastN(recording_buffer[d], n)]]
                    ELSE NoneData(d)]_vars

\* C10: atomic chunk append.  Whenever a reader can take the lock, every
\* chunk appended so far is in all channel rings, in the timestamp ring and
\* in the recording log alike.
C10_AtomicChunkAppend ==
    \A d \in Devices :
        lock[d] = "free" =>
            /\ \A c \in DOMAIN rolling_buffers[d] :
                   /\ nCh[d][c] = nTs[d]
                   /\ rolling_buffers[d][c] = timestamps_buffer[d]
            /\ nRec[d] = nTs[d]

\* C10 witness: a reader copied the log while the pull thread held a chunk
C10_Witness ==
    \E d \in Devices :
        /\ obs.op = "recording"
        /\ obs.res # <<>>
        /\ ppc[d] = "acquire"
        /\ lock[d] = "free"

\* the last n samples the pull loop appended to the log of d, in order
LastLogged(d, n) ==
    [i \in 1..n |-> flushMark[d] + nRec[d] - n + i]

\* C11: the recording log is, in order and without gap or repeat, what the
\* pull loop appended since start() or since the last clear: it is always
\* the run of the latest appended samples, it gets shorter only in
\* clear_recording_buffer(), which empties it and leaves the rings alone,
\* and get_recording_buffer() returns it whole and leaves it in place
C11_LosslessRecordingLog ==
    /\ [](\A d \in Devices :
             recording_buffer[d] = LastLogged(d, Len(recording_buffer[d])))
    /\ [][\A d \in Devices :
             Len(recording_buffer'[d]) < Len(recording_buffer[d])
                => /\ obs' = [op |-> "clear", dev |-> d]
                   /\ recording_buffer'[d] = <<>>
                   /\ rolling_buffers' = rolling_buffers
                   /\ timestamps_buffer' = timestamps_buffer]_vars
    /\ [][(obs' # obs /\ obs'.op = "recording")
             => /\ obs'.res = recording_buffer[obs'.dev]
                /\ recording_buffer' = recording_buffer]_vars

\* a read returned a log longer than the ring: the ring has overflowed, the
\* log kept every sample, and the read left it in place
C11_Witness ==
    /\ obs.op = "recording"
    /\ Len(obs.res) > ts_maxlen[obs.dev]
    /\ obs.res = recording_buffer[obs.dev]
    /\ Len(timestamps_buffer[obs.dev]) = ts_maxlen[obs.dev]

\* ------------------------------------------------------------------------
\* Pipeline level: the pull loop seen from other threads
\* ------------------------------------------------------------------------

\* one iteration of _pull_loop that got data: the chunk is in all rings and
\* in the log when the lock is released (C10), so other threads see one step
PullIteration(d) ==
    /\ ppc[d] = "loop"
    /\ running[d]
    /\ inlet[d]
    /\ lock[d] = "free"
    /\ srcq[d] # <<>>
    /\ LET got == PullChunkOf(srcq[d], PullMaxSamples)
       IN  /\ srcq' = [srcq EXCEPT ![d] = Drop(@, Len(got))]
           /\ chunk' = [chunk EXCEPT ![d] = got]
           /\ rolling_buffers' = [rolling_buffers EXCEPT ![d] =
                  [c \in DOMAIN @ |->
                      DequeExtend(@[c], got, MaxSamples(sample_rate[d]))]]
           /\ timestamps_buffer' = [timestamps_buffer EXCEPT ![d] =
                                      DequeExtend(@, got, ts_maxlen[d])]
           /\ recording_buffer' = [recording_buffer EXCEPT ![d] = @ \o got]
           /\ nCh' = [nCh EXCEPT ![d] = [c \in DOMAIN @ |-> @[c] + Len(got)]]
           /\ nTs' = [nTs EXCEPT ![d] = @ + Len(got)]
           /\ nRec' = [nRec EXCEPT ![d] = @ + Len(got)]
    /\ UNCHANGED <<cvars, xvars>>
    /\ UNCHANGED <<produced, srcAlive, hphase, inlet, sample_rate, ts_maxlen,
                   running, lock, ppc, pidx, stopc, flushMark, obs>>

\* the source of d dies: every later pull returns empty
SrcDie(d) ==
    /\ srcAlive[d]
    /\ hphase[d] = "started"
    /\ srcAlive' = [srcAlive EXCEPT ![d] = FALSE]
    /\ UNCHANGED <<cvars, xvars>>
    /\ UNCHANGED <<srcq, produced, hphase, inlet, sample_rate,
                   rolling_buffers, timestamps_buffer, ts_maxlen,
                   recording_buffer, running, lock, ppc, chunk, pidx, stopc,
                   flushMark, nCh, nTs, nRec, obs>>

\* get_stream_info(): takes self.lock, then calls get_buffer_fill_ratio(),
\* which waits for the same non-reentrant lock; the caller holds the lock
\* and never returns
GetStreamInfo(d) ==
    /\ d \in stream_handlers
    /\ lock[d] = "free"
    /\ lock' = [lock EXCEPT ![d] = "info"]
    /\ UNCHANGED <<cvars, xvars>>
    /\ UNCHANGED <<srcq, produced, srcAlive, hphase, inlet, sample_rate,
                   rolling_buffers, timestamps_buffer, ts_maxlen,
                   recording_buffer, running, ppc, chunk, pidx, stopc,
                   flushMark, nCh, nTs, nRec, obs>>

\* ------------------------------------------------------------------------
\* RateController.start / stop
\* ------------------------------------------------------------------------

\* time.time() advances
Tick ==
    /\ now < MaxTime
    /\ now' = now + 1
    /\ UNCHANGED <<hvars, xvars>>
    /\ UNCHANGED <<stream_handlers, rc_exists, ctl, rc_running,
                   latest_metrics, metrics_lock, nthreads, cpc, citer, cidx,
                   fill_ratio, device_data, new_metrics, upd_left, upc,
                   snapshot, committed>>

\* start(): returns at once when running; else sets running and starts a
\* new calc thread, which becomes self.calc_thread
RCStart ==
    /\ rc_exists
    /\ ctl = "idle"
    /\ ~rc_running
    /\ nthreads < MaxCalcThreads
    /\ rc_running' = TRUE
    /\ nthreads' = nthreads + 1
    /\ cpc' = [cpc EXCEPT ![nthreads + 1] = "loop"]
    /\ UNCHANGED <<hvars, xvars>>
    /\ UNCHANGED <<stream_handlers, rc_exists, ctl, latest_metrics,
                   metrics_lock, citer, cidx, fill_ratio, device_data,
                   new_metrics, upd_left, upc, snapshot, now,
                   committed>>

\* stop(): clears running and waits in calc_thread.join(timeout=2.0)
RCStopRequest ==
    /\ rc_exists
    /\ ctl = "idle"
    /\ rc_running
    /\ rc_running' = FALSE
    /\ ctl' = "joining"
    /\ UNCHANGED <<hvars, xvars>>
    /\ UNCHANGED <<stream_handlers, rc_exists, latest_metrics, metrics_lock,
                   nthreads, cpc, citer, cidx, fill_ratio, device_data,
                   new_metrics, upd_left, upc, snapshot, now,
                   committed>>

\* join returns: the calc thread ended, or the 2 s ran out with the thread
\* alive (the code only logs a warning)
RCStopJoin(timedOut) ==
    /\ rc_exists
    /\ ctl = "joining"
    /\ timedOut \/ cpc[nthreads] = "exit"
    /\ ctl' = "idle"
    /\ UNCHANGED <<hvars, xvars>>
    /\ UNCHANGED <<stream_handlers, rc_exists, rc_running, latest_metrics,
                   metrics_lock, nthreads, cpc, citer, cidx, fill_ratio,
                   device_data, new_metrics, upd_left, upc, snapshot,
                   now, committed>>

\* ------------------------------------------------------------------------
\* RateController._calc_loop, one calc thread t
\* ------------------------------------------------------------------------

\* keys of the handler map in iteration order
HandlerKeys == SelectSeq(DeviceOrder, LAMBDA d : d \in stream_handlers)

\* while self.running: ... for device_name, handler in
\* self.stream_handlers.items()
CalcLoopCheck(t) ==
    /\ cpc[t] = "loop"
    /\ IF rc_running
       THEN /\ citer' = [citer EXCEPT ![t] = HandlerKeys]
            /\ cidx' = [cidx EXCEPT ![t] = 1]
            /\ device_data' = [device_data EXCEPT ![t] = <<>>]
            /\ cpc' = [cpc EXCEPT ![t] =
                         IF HandlerKeys = <<>> THEN "process" ELSE "fill"]
       ELSE /\ cpc' = [cpc EXCEPT ![t] = "exit"]
            /\ UNCHANGED <<citer, cidx, device_data>>
    /\ UNCHANGED <<hvars, xvars>>
    /\ UNCHANGED <<stream_handlers, rc_exists, ctl, rc_running,
                   latest_metrics, metrics_lock, nthreads, fill_ratio,
                   new_metrics, upd_left, upc, snapshot, now,
                   committed>>

\* the iterator's next(): a dict whose size changed since the iterator was
\* created raises RuntimeError (caught by the loop's except branch)
NextDevice(t) ==
    IF Cardinality(stream_handlers) # Len(citer[t])
    THEN /\ cpc' = [cpc EXCEPT ![t] = "backoff"]
         /\ UNCHANGED cidx
    ELSE IF cidx[t] = Len(citer[t])
         THEN /\ cpc' = [cpc EXCEPT ![t] = "process"]
              /\ UNCHANGED cidx
         ELSE /\ cpc' = [cpc EXCEPT ![t] = "fill"]
              /\ cidx' = [cidx EXCEPT ![t] = @ + 1]

\* fill_ratio = handler.get_buffer_fill_ratio(); if fill_ratio < 0.9: continue
CalcCheckFill(t) ==
    /\ cpc[t] = "fill"
    /\ LET d == citer[t][cidx[t]]
       IN  /\ lock[d] = "free"
           /\ fill_ratio' = [fill_ratio EXCEPT ![t] = FillRatio(d)]
           /\ IF BelowReady(FillRatio(d))
              THEN NextDevice(t)
              ELSE /\ cpc' = [cpc EXCEPT ![t] = "data"]
                   /\ UNCHANGED cidx
    /\ UNCHANGED <<hvars, xvars>>
    /\ UNCHANGED <<stream_handlers, rc_exists, ctl, rc_running,
                   latest_metrics, metrics_lock, nthreads, citer,
                   device_data, new_metrics, upd_left, upc, snapshot,
                   now, committed>>

\* data = handler.get_recent_data(duration=4.0); if data is None: continue;
\* device_data.append(...)
CalcGetData(t) ==
    /\ cpc[t] = "data"
    /\ LET d == citer[t][cidx[t]]
           data == RecentData(d, SamplesNeeded(2 * BufferDuration,
                                               sample_rate[d]))
       IN  /\ lock[d] = "free"
           /\ device_data' = [device_data EXCEPT ![t] =
                                IF data.none THEN @
                                ELSE Append(@, [device |-> d,
                                                data |-> data.data])]
    /\ NextDevice(t)
    /\ UNCHANGED <<hvars, xvars>>
    /\ UNCHANGED <<stream_handlers, rc_exists, ctl, rc_running,
                   latest_metrics, metrics_lock, nthreads, citer, fill_ratio,
                   new_metrics, upd_left, upc, snapshot, now,
                   committed>>

\* MultiScaleProcessor(sample_rate=...): the processor is built for the
\* nominal rate of the devices
ProcessorRate == PipeRate

\* the signals taken from the head of the data, data[ch][:expected_samples]
FrontalRecordHead(data, half) ==
    LET expected_samples == SamplesNeeded(half, ProcessorRate)
        left_signal == Take(data["AF7"], expected_samples)
        right_signal == Take(data["AF8"], expected_samples)
    IN  [samples |-> Len(left_signal),
         left |-> <<left_signal[1], left_signal[Len(left_signal)]>>,
         right |-> <<right_signal[1], right_signal[Len(right_signal)]>>]

\* left_signal = data[channels[0]][-expected_samples:] and the right one:
\* the record computed from them, given by the number of samples and the
\* first and last sample of each signal
FrontalRecord(data, half) ==
    LET expected_samples == SamplesNeeded(half, ProcessorRate)
        left_signal == PySliceLast(data["AF7"], expected_samples)
        right_signal == PySliceLast(data["AF8"], expected_samples)
    IN  [samples |-> Len(left_signal),
         left |-> <<left_signal[1], left_signal[Len(left_signal)]>>,
         right |-> <<right_signal[1], right_signal[Len(right_signal)]>>]

\* a device has a result at a timescale only if its data is long enough
CanProcess(data, half) ==
    \A c \in {"AF7", "AF8"} :
        Len(data[c]) >= SamplesNeeded(half, ProcessorRate)

\* step 5 without the test of results_1s and results_2s
FrameDevicesAny(results_4s, results_1s, results_2s) == results_4s

\* step 5 builds metrics for every device found in all three results
FrameDevices(results_4s, results_1s, results_2s) ==
    (results_4s \cap results_1s) \cap results_2s

\* DeviceMetrics(...) of one device_data item
FrameOf(item) ==
    [timestamp |-> now,
     frontal_1s |-> FrontalRecord(item.data, 2),
     frontal_2s |-> FrontalRecord(item.data, 4),
     frontal_4s |-> FrontalRecord(item.data, 8)]

\* steps 2-5: the three process_multiple_devices calls on device_data
\* (results_4s, results_1s, results_2s: the devices with a result), the
\* quality reads (get_data_age_ms, get_buffer_fill_ratio under the handler
\* lock) and the DeviceMetrics built for every device that has all three
\* results; nothing is done when device_data is empty
CalcProcess(t, results_4s, results_1s, results_2s) ==
    /\ cpc[t] = "process"
    /\ LET gathered == DevicesOf(device_data[t])
           ok == FrameDevices(results_4s, results_1s, results_2s)
       IN  /\ results_4s \subseteq
                 {d \in gathered : CanProcess(ItemOf(device_data[t], d).data, 8)}
           /\ results_1s \subseteq
                 {d \in gathered : CanProcess(ItemOf(device_data[t], d).data, 2)}
           /\ results_2s \subseteq
                 {d \in gathered : CanProcess(ItemOf(device_data[t], d).data, 4)}
           /\ \A d \in gathered : lock[d] = "free"
           /\ new_metrics' = [new_metrics EXCEPT ![t] =
                                IF device_data[t] = <<>> THEN @
                                ELSE [d \in ok |->
                                         FrameOf(ItemOf(device_data[t], d))]]
           /\ upd_left' = [upd_left EXCEPT ![t] = ok]
           /\ cpc' = [cpc EXCEPT ![t] = IF ok = {} THEN "sleep" ELSE "acquire"]
    /\ UNCHANGED <<hvars, xvars>>
    /\ UNCHANGED <<stream_handlers, rc_exists, ctl, rc_running,
                   latest_metrics, metrics_lock, nthreads, citer, cidx,
                   fill_ratio, device_data, upc, snapshot, now,
                   committed>>

\* with self.metrics_lock:
CalcAcquire(t) ==
    /\ cpc[t] = "acquire"
    /\ metrics_lock = 0
    /\ metrics_lock' = t
    /\ cpc' = [cpc EXCEPT ![t] = "update"]
    /\ UNCHANGED <<hvars, xvars>>
    /\ UNCHANGED <<stream_handlers, rc_exists, ctl, rc_running,
                   latest_metrics, nthreads, citer, cidx, fill_ratio,
                   device_data, new_metrics, upd_left, upc, snapshot,
                   now, committed>>

\* the first of the keys still to be written, in insertion order
FirstOf(S) ==
    LET keys == SelectSeq(DeviceOrder, LAMBDA d : d \in S) IN keys[1]

\* dict.update replaced by an assignment: the slot becomes new_metrics
CalcUpdateAssign(t) ==
    /\ cpc[t] = "update"
    /\ latest_metrics' = new_metrics[t]
    /\ upd_left' = [upd_left EXCEPT ![t] = {}]
    /\ cpc' = [cpc EXCEPT ![t] = "release"]
    /\ UNCHANGED <<hvars, xvars>>
    /\ UNCHANGED <<stream_handlers, rc_exists, ctl, rc_running,
                   metrics_lock, nthreads, citer, cidx, fill_ratio,
                   device_data, new_metrics, upc, snapshot, now,
                   committed>>

\* self.latest_metrics.update(new_metrics), one key at a time
CalcUpdate(t) ==
    /\ cpc[t] = "update"
    /\ LET d == FirstOf(upd_left[t])
       IN  /\ latest_metrics' =
                 [k \in DOMAIN latest_metrics \cup {d} |->
                     IF k = d THEN new_metrics[t][d] ELSE latest_metrics[k]]
           /\ upd_left' = [upd_left EXCEPT ![t] = @ \ {d}]
           /\ cpc' = [cpc EXCEPT ![t] =
                        IF upd_left[t] = {d} THEN "release" ELSE "update"]
    /\ UNCHANGED <<hvars, xvars>>
    /\ UNCHANGED <<stream_handlers, rc_exists, ctl, rc_running,
                   metrics_lock, nthreads, citer, cidx, fill_ratio,
                   device_data, new_metrics, upc, snapshot, now,
                   committed>>

\* end of the with block
CalcRelease(t) ==
    /\ cpc[t] = "release"
    /\ metrics_lock' = 0
    /\ committed' = latest_metrics
    /\ cpc' = [cpc EXCEPT ![t] = "sleep"]
    /\ UNCHANGED <<hvars, xvars>>
    /\ UNCHANGED <<stream_handlers, rc_exists, ctl, rc_running,
                   latest_metrics, nthreads, citer, cidx, fill_ratio,
                   device_data, new_metrics, upd_left, upc, snapshot,
                   now>>

\* performance bookkeeping and time.sleep (0.1 s in the except branch); the
\* locals of the tick are dead from here on and are rebound by the next tick
CalcSleep(t) ==
    /\ cpc[t] \in {"sleep", "backoff"}
    /\ cpc' = [cpc EXCEPT ![t] = "loop"]
    /\ citer' = [citer EXCEPT ![t] = <<>>]
    /\ cidx' = [cidx EXCEPT ![t] = 1]
    /\ fill_ratio' = [fill_ratio EXCEPT ![t] = <<0, 1>>]
    /\ device_data' = [device_data EXCEPT ![t] = <<>>]
    /\ new_metrics' = [new_metrics EXCEPT ![t] = EmptyMap]
    /\ upd_left' = [upd_left EXCEPT ![t] = {}]
    /\ UNCHANGED <<hvars, xvars>>
    /\ UNCHANGED <<stream_handlers, rc_exists, ctl, rc_running,
                   latest_metrics, metrics_lock, nthreads, upc, snapshot,
                   now, committed>>

\* ------------------------------------------------------------------------
\* ui_broadcast_loop
\* ------------------------------------------------------------------------

\* get_latest_metrics() copying the slot without taking metrics_lock
PubReadNoLock(connected) ==
    /\ upc = "read"
    /\ snapshot' = latest_metrics
    /\ upc' = IF connected THEN "send" ELSE "sleep"
    /\ UNCHANGED <<hvars, xvars>>
    /\ UNCHANGED <<stream_handlers, rc_exists, ctl, rc_running,
                   latest_metrics, metrics_lock, nthreads, cpc, citer, cidx,
                   fill_ratio, device_data, new_metrics, upd_left,
                   now, committed>>

\* metrics_json = rate_controller.get_metrics_json(): get_latest_metrics()
\* copies the slot under metrics_lock; connected is
\* bool(websocket_manager.active_connections)
PubRead(connected) ==
    /\ upc = "read"
    /\ metrics_lock = 0
    /\ snapshot' = latest_metrics
    /\ upc' = IF connected THEN "send" ELSE "sleep"
    /\ UNCHANGED <<hvars, xvars>>
    /\ UNCHANGED <<stream_handlers, rc_exists, ctl, rc_running,
                   latest_metrics, metrics_lock, nthreads, cpc, citer, cidx,
                   fill_ratio, device_data, new_metrics, upd_left,
                   now, committed>>

\* get_metrics_json(): one entry (subject, frontal, quality) per device of
\* the snapshot and nothing else; the message carries no session field
MetricsJson(metrics) ==
    [any |-> TRUE,
     frames |-> SelectSeq(DeviceOrder, LAMBDA d : d \in DOMAIN metrics),
     feedback_disabled |-> FALSE]

\* await websocket_manager.broadcast(metrics_json)
PubSend ==
    /\ upc = "send"
    /\ upc' = "sleep"
    /\ sent' = MetricsJson(snapshot)
    /\ UNCHANGED <<hvars, evars, svars, rvars, lvars>>
    /\ UNCHANGED <<stream_handlers, rc_exists, ctl, rc_running,
                   latest_metrics, metrics_lock, nthreads, cpc, citer, cidx,
                   fill_ratio, device_data, new_metrics, upd_left, snapshot,
                   now, committed>>

\* await asyncio.sleep(sleep_time)
PubSleep ==
    /\ upc = "sleep"
    /\ upc' = "read"
    /\ UNCHANGED <<hvars, xvars>>
    /\ UNCHANGED <<stream_handlers, rc_exists, ctl, rc_running,
                   latest_metrics, metrics_lock, nthreads, cpc, citer, cidx,
                   fill_ratio, device_data, new_metrics, upd_left, snapshot,
                   now, committed>>

\* ------------------------------------------------------------------------
\* main.py disconnect_device
\* ------------------------------------------------------------------------

\* disconnect_device(d): handler.stop() (the pull loop sees running False
\* and ends, the inlet is closed), del stream_handlers[d],
\* device_manager.disconnect_device(d) ends the subprocess; with a session
\* active the call of update_device_status, which SessionManager does not
\* define, raises and the request ends there; else, when no device is
\* left: rate_controller.stop(), rate_controller = None and the broadcast
\* task, if there is one, is cancelled. tlog gets the components stopped,
\* in the order they were stopped, when d was the last device.
Disconnect(d) ==
    /\ shut = "up"
    /\ d \in stream_handlers
    /\ ctl = "idle"
    /\ lock[d] = "free"
    /\ running' = [running EXCEPT ![d] = FALSE]
    /\ ppc' = [ppc EXCEPT ![d] = "exit"]
    /\ inlet' = [inlet EXCEPT ![d] = FALSE]
    /\ stream_handlers' = stream_handlers \ {d}
    /\ IF stream_handlers = {d} /\ rc_exists /\ ~current_session.active
       THEN /\ rc_running' = FALSE
            /\ rc_exists' = FALSE
            /\ upc' = "none"
            /\ tlog' = <<"ingestors", "compute">> \o
                          (IF upc # "none" THEN <<"publish">> ELSE <<>>)
       ELSE /\ UNCHANGED <<rc_running, rc_exists, upc>>
            /\ tlog' = IF stream_handlers = {d}
                       THEN <<"ingestors">> ELSE tlog
    /\ UNCHANGED <<srcq, produced, srcAlive, hphase, sample_rate,
                   rolling_buffers, timestamps_buffer, ts_maxlen,
                   recording_buffer, lock, chunk, pidx, stopc, flushMark,
                   nCh, nTs, nRec, obs>>
    /\ UNCHANGED <<ctl, latest_metrics, metrics_lock, nthreads, cpc, citer,
                   cidx, fill_ratio, device_data, new_metrics, upd_left,
                   snapshot, now, committed>>
    /\ connected_processes' = connected_processes \ {d}
    /\ UNCHANGED <<evars, svars, sent, rvars, shut, conn_pc, conn_polls,
                   conn_ret>>

\* ------------------------------------------------------------------------
\* Pipeline states: every device connected, its handler started and its
\* pull thread running, the controller started, the broadcast loop running
\* ------------------------------------------------------------------------

\* the samples 1..k in arrival order
FirstSamples(k) == [i \in 1..k |-> i]

\* the devices in S connected: their handlers started at PipeRate with
\* fill[d] samples pulled so far; the other handlers not started
HandlersStarted(S, fill) ==
    /\ srcq = [d \in Devices |-> <<>>]
    /\ produced = [d \in Devices |-> IF d \in S THEN fill[d] ELSE 0]
    /\ srcAlive = [d \in Devices |-> TRUE]
    /\ hphase = [d \in Devices |->
                   IF d \in S THEN "started" ELSE "created"]
    /\ inlet = [d \in Devices |-> d \in S]
    /\ sample_rate = [d \in Devices |-> IF d \in S THEN PipeRate ELSE 0]
    /\ rolling_buffers = [d \in Devices |->
                            IF d \in S
                            THEN [c \in Range(channel_names) |->
                                     FirstSamples(fill[d])]
                            ELSE <<>>]
    /\ timestamps_buffer = [d \in Devices |->
                              IF d \in S THEN FirstSamples(fill[d])
                              ELSE <<>>]
    /\ ts_maxlen = [d \in Devices |->
                      IF d \in S THEN MaxSamples(PipeRate)
                      ELSE DefaultMaxlen]
    /\ recording_buffer = [d \in Devices |->
                             IF d \in S THEN FirstSamples(fill[d])
                             ELSE <<>>]
    /\ running = [d \in Devices |-> d \in S]
    /\ lock = [d \in Devices |-> "free"]
    /\ ppc = [d \in Devices |-> IF d \in S THEN "loop" ELSE "none"]
    /\ chunk = [d \in Devices |-> <<>>]
    /\ pidx = [d \in Devices |-> 1]
    /\ stopc = [d \in Devices |-> "idle"]
    /\ flushMark = [d \in Devices |-> 0]
    /\ nCh = [d \in Devices |->
                [c \in Range(channel_names) |->
                    IF d \in S THEN fill[d] ELSE 0]]
    /\ nTs = [d \in Devices |-> IF d \in S THEN fill[d] ELSE 0]
    /\ nRec = [d \in Devices |-> IF d \in S THEN fill[d] ELSE 0]
    /\ obs = NoObs

\* RateController(stream_handlers, ...).start() done with the devices in S
\* connected and ui_broadcast_loop entered, nothing computed yet
ControllerStarted(S) ==
    /\ stream_handlers = S
    /\ rc_exists = TRUE
    /\ ctl = "idle"
    /\ rc_running = TRUE
    /\ latest_metrics = EmptyMap
    /\ metrics_lock = 0
    /\ nthreads = 1
    /\ cpc = [t \in CalcThreads |-> IF t = 1 THEN "loop" ELSE "none"]
    /\ citer = [t \in CalcThreads |-> <<>>]
    /\ cidx = [t \in CalcThreads |-> 1]
    /\ fill_ratio = [t \in CalcThreads |-> <<0, 1>>]
    /\ device_data = [t \in CalcThreads |-> <<>>]
    /\ new_metrics = [t \in CalcThreads |-> EmptyMap]
    /\ upd_left = [t \in CalcThreads |-> {}]
    /\ upc = "read"
    /\ snapshot = EmptyMap
    /\ now = 0
    /\ committed = EmptyMap

\* every ring full
FullRings == [d \in Devices |-> MaxSamples(PipeRate)]

\* one step of calc thread t
CalcStep(t) ==
    \/ CalcLoopCheck(t)
    \/ CalcCheckFill(t)
    \/ CalcGetData(t)
    \/ \E results_4s, results_1s, results_2s \in SUBSET Devices :
          CalcProcess(t, results_4s, results_1s, results_2s)
    \/ CalcAcquire(t)
    \/ CalcUpdate(t)
    \/ CalcRelease(t)
    \/ CalcSleep(t)

\* one step of the broadcast loop
PubStep ==
    \/ \E connected \in BOOLEAN : PubRead(connected)
    \/ PubSend
    \/ PubSleep

\* ------------------------------------------------------------------------
\* Gathering specification: one connected device whose ring fills up from
\* just below the readiness threshold, its source and pull thread, the
\* calc thread, the broadcast loop, status requests
\* ------------------------------------------------------------------------

\* the largest ring length with len / maxlen < 0.9, up to the full ring
FillsAroundReady ==
    ((9 * MaxSamples(PipeRate)) \div 10)..MaxSamples(PipeRate)

PipeInit ==
    /\ \E fill \in [StreamDevices -> FillsAroundReady] :
          HandlersStarted(StreamDevices, fill)
    /\ ControllerStarted(StreamDevices)
    /\ RestIdle

PipeNext ==
    \/ \E d \in StreamDevices : Produce(d)
    \/ \E d \in StreamDevices : PullIteration(d)
    \/ \E d \in StreamDevices : GetStreamInfo(d)
    \/ CalcStep(1)
    \/ PubStep

SpecPipe == PipeInit /\ [][PipeNext]_vars

\* ------------------------------------------------------------------------
\* Slot specification: two connected devices with full rings, the calc
\* thread, the clock, the broadcast loop
\* ------------------------------------------------------------------------

SlotInit ==
    /\ HandlersStarted(Devices, FullRings)
    /\ ControllerStarted(Devices)
    /\ RestIdle

SlotNext ==
    \/ Tick
    \/ CalcStep(1)
    \/ PubStep

SpecSlot == SlotInit /\ [][SlotNext]_vars

\* ------------------------------------------------------------------------
\* Restart specification: one connected device with a full ring, the
\* controller stopped and started again, the clock, the broadcast loop
\* ------------------------------------------------------------------------

RestartInit ==
    /\ HandlersStarted(StreamDevices, FullRings)
    /\ ControllerStarted(StreamDevices)
    /\ RestIdle

RestartNext ==
    \/ Tick
    \/ RCStart
    \/ RCStopRequest
    \/ \E timedOut \in BOOLEAN : RCStopJoin(timedOut)
    \/ \E t \in CalcThreads : CalcStep(t)
    \/ PubStep

SpecRestart == RestartInit /\ [][RestartNext]_vars

\* ------------------------------------------------------------------------
\* Liveness specification: two connected devices with full rings; a source
\* may die and a device may be disconnected; the calc thread and the pull
\* threads keep running whenever they can (the broadcast loop only reads
\* the slot and is left out)
\* ------------------------------------------------------------------------

LiveNext ==
    \/ \E d \in Devices : Produce(d)
    \/ \E d \in Devices : PullIteration(d)
    \/ \E d \in Devices : SrcDie(d)
    \/ \E d \in Devices : Disconnect(d)
    \/ CalcStep(1)

\* the calc thread and the pull threads are scheduled
LiveFairness ==
    /\ WF_vars(CalcStep(1))
    /\ \A d \in Devices : WF_vars(PullIteration(d))

SpecLive == SlotInit /\ [][LiveNext]_vars /\ LiveFairness

\* ------------------------------------------------------------------------
\* Properties of the pipeline
\* ------------------------------------------------------------------------

\* calc thread t leaves its current position in this step
Moved(t) == <<cpc[t], cidx[t]>> # <<cpc[t], cidx[t]>>'

\* C2: at every compute tick a connected device gets a 4 s snapshot and is
\* handed to feature computation if and only if the fill ratio read for it
\* in that tick is >= 0.9: a device that passed the fill check leaves the
\* gathering step as a member of device_data, and device_data grows only by
\* the device under the iterator, after a fill reading >= 0.9
C2_ReadinessGating ==
    [][\A t \in CalcThreads :
          /\ (cpc[t] = "data" /\ Moved(t))
                => citer[t][cidx[t]] \in DevicesOf(device_data'[t])
          /\ (device_data'[t] # device_data[t] /\ device_data'[t] # <<>>)
                => /\ cpc[t] = "data"
                   /\ ~BelowReady(fill_ratio[t])
                   /\ Len(device_data'[t]) = Len(device_data[t]) + 1
                   /\ SubSeq(device_data'[t], 1, Len(device_data[t])) =
                         device_data[t]
                   /\ device_data'[t][Len(device_data'[t])].device =
                         citer[t][cidx[t]]]_vars

\* C3: for every device, the frame timestamp in successive snapshots read
\* from the slot never decreases
C3_LatestFrameMonotonic ==
    [][\A d \in DOMAIN snapshot \cap DOMAIN snapshot' :
          snapshot'[d].timestamp >= snapshot[d].timestamp]_vars

\* old with the entries of new written over it
Merge(old, new) ==
    [k \in DOMAIN old \cup DOMAIN new |->
        IF k \in DOMAIN new THEN new[k] ELSE old[k]]

\* C4: when a tick has written the slot, the slot is what it was before the
\* tick with the entry of every reporting device replaced by its new frame
\* and every other entry retained; the slot changes in no other step, so a
\* tick with no reporting device leaves it unchanged
C4_SlotMerge ==
    [][/\ \A t \in CalcThreads :
             (cpc[t] = "release" /\ cpc'[t] = "sleep")
                => latest_metrics = Merge(committed, new_metrics[t])
       /\ latest_metrics' # latest_metrics
             => /\ metrics_lock # 0
                /\ cpc[metrics_lock] = "update"
                /\ new_metrics[metrics_lock] # EmptyMap]_vars

\* a tick is about to release the slot after replacing one device's frame by
\* a newer one while the other device, which did not report, keeps its entry
C4_Witness ==
    \E t \in CalcThreads :
        /\ cpc[t] = "release"
        /\ \E d \in DOMAIN committed \ DOMAIN new_metrics[t] :
               latest_metrics[d] = committed[d]
        /\ \E d \in DOMAIN committed \cap DOMAIN new_metrics[t] :
               /\ latest_metrics[d] = new_metrics[t][d]
               /\ latest_metrics[d] # committed[d]

\* C5: every snapshot get_latest_metrics() returns is the slot as a
\* completed merge left it (or the empty slot before the first merge),
\* never a slot with part of a merge applied
C5_ConsistentSnapshot ==
    [][(upc = "read" /\ upc' # "read") => snapshot' = committed]_vars

\* the reader holds a two-device snapshot while a merge has written one of
\* its two devices and still holds the slot lock
C5_Witness ==
    /\ upc \in {"send", "sleep"}
    /\ DOMAIN snapshot = Devices
    /\ snapshot = committed
    /\ metrics_lock # 0
    /\ latest_metrics # committed
    /\ upd_left[metrics_lock] # {}

\* C6: once a device's source is dead or the device is disconnected, and
\* the controller keeps running, the slot eventually holds no entry for it
C6_DeadDeviceRemoved ==
    \A d \in Devices :
        ((d \notin stream_handlers \/ ~srcAlive[d]) /\ rc_running)
            ~> (~rc_running \/ d \notin DOMAIN latest_metrics)

\* C7: the slot lock is held only while a merge is copied in, a device lock
\* only while a chunk is appended, and no holder of a device lock waits
\* while holding it, so neither tick can be blocked for good
C7_NoBlockingBetweenTicks ==
    /\ metrics_lock # 0 => cpc[metrics_lock] \in {"update", "release"}
    /\ \A d \in Devices :
          /\ lock[d] = "pull"
                => ppc[d] \in {"extend_ch", "extend_ts", "extend_rec",
                               "release"}
          /\ lock[d] \in {"free", "pull"}

\* ------------------------------------------------------------------------
\* Timestamp specification: one started handler with empty rings; the
\* samples in the inlet queue are written as their timestamps, which are
\* whatever the sender of the stream put on them
\* ------------------------------------------------------------------------

\* the source emits one sample carrying timestamp ts; the inlet is created
\* without processing flags and hands the sender's timestamps through
ProduceStamped(d, ts) ==
    /\ srcAlive[d]
    /\ produced[d] < MaxStamped
    /\ Len(srcq[d]) < MaxQueue
    /\ produced' = [produced EXCEPT ![d] = @ + 1]
    /\ srcq' = [srcq EXCEPT ![d] = Append(@, ts)]
    /\ UNCHANGED <<cvars, xvars>>
    /\ UNCHANGED <<srcAlive, hphase, inlet, sample_rate, rolling_buffers,
                   timestamps_buffer, ts_maxlen, recording_buffer, running,
                   lock, ppc, chunk, pidx, stopc, flushMark, nCh, nTs,
                   nRec, obs>>

StampInit ==
    /\ HandlersStarted(StreamDevices, [d \in StreamDevices |-> 0])
    /\ NoController
    /\ RestIdle

StampNext ==
    \E d \in StreamDevices :
        \/ \E ts \in 0..MaxTime : ProduceStamped(d, ts)
        \/ PullIteration(d)
        \/ GetDataAgeMs(d)

SpecStamp == StampInit /\ [][StampNext]_vars

\* s is non-decreasing
NonDecreasing(s) == \A i \in 1..(Len(s) - 1) : s[i] <= s[i + 1]

\* C12: the timestamps held in the timestamp ring and in the recording log
\* of every device are non-decreasing
C12_MonotoneTimestamps ==
    \A d \in Devices :
        /\ NonDecreasing(timestamps_buffer[d])
        /\ NonDecreasing(recording_buffer[d])

\* ------------------------------------------------------------------------
\* MultiScaleProcessor: process_single_device, process_multiple_devices
\* ------------------------------------------------------------------------

\* channels: List[str] = ['AF7', 'AF8']
frontal_channels == <<"AF7", "AF8">>

\* int(timescale * self.sample_rate) of a processor built for StreamRate
ExpectedSamples(half) == SamplesNeeded(half, StreamRate)

\* the return value None of process_single_device
NoResult == [none |-> TRUE, samples |-> 0]

\* process_single_device(data, timescale): None when a frontal channel is
\* missing, when a channel is too short, or when the computation raises
\* (caught by the except branch); data is given by the channels it has, the
\* length of its arrays and whether _compute_band_powers raises on it
ProcessSingleDevice(data, half) ==
    IF ~(Range(frontal_channels) \subseteq data.chans)
    THEN NoResult
    ELSE IF data.len < ExpectedSamples(half)
         THEN NoResult
         ELSE IF data.raises
              THEN NoResult
              ELSE [none |-> FALSE, samples |-> ExpectedSamples(half)]

\* the data of one list item
EngineData ==
    [chans : {{"AF7", "AF8"}, {"AF7"}},
     len : {ExpectedSamples(2), ExpectedSamples(4)},
     raises : BOOLEAN]

\* the items of one device
EngineItems(d) == [device : {d}, data : EngineData]

\* device_data lists: no device, one device, or both in either order
EngineInputs ==
    {<<>>}
    \cup {<<x>> : x \in UNION {EngineItems(d) : d \in Devices}}
    \cup {<<x, y>> : x \in EngineItems(DeviceOrder[1]),
                     y \in EngineItems(DeviceOrder[2])}
    \cup {<<y, x>> : x \in EngineItems(DeviceOrder[1]),
                     y \in EngineItems(DeviceOrder[2])}

\* for item in device_data: future = self.executor.submit(...)
EngineSubmit ==
    /\ e_pc = "idle"
    /\ e_fut' = [i \in 1..Len(e_input) |->
                   [state |-> "pending", value |-> NoResult]]
    /\ e_results' = EmptyMap
    /\ e_pc' = "collect"
    /\ UNCHANGED <<hvars, cvars, svars, sent, rvars, lvars, e_input, e_timescale>>

\* a pool worker runs process_single_device for item i
EngineRun(i) ==
    /\ e_pc = "collect"
    /\ e_fut[i].state = "pending"
    /\ e_fut' = [e_fut EXCEPT ![i] =
                   [state |-> "done",
                    value |-> ProcessSingleDevice(e_input[i].data,
                                                  e_timescale)]]
    /\ UNCHANGED <<hvars, cvars, svars, sent, rvars, lvars, e_input, e_timescale, e_results, e_pc>>

\* the collection loop ended by the first future without a result
EngineCollectAbort(i) ==
    /\ e_pc = "collect"
    /\ e_fut[i].state = "done"
    /\ e_fut' = [e_fut EXCEPT ![i].state = "collected"]
    /\ IF e_fut[i].value.none
       THEN /\ e_pc' = "done"
            /\ UNCHANGED e_results
       ELSE /\ e_results' =
                 [k \in DOMAIN e_results \cup {e_input[i].device} |->
                     IF k = e_input[i].device THEN e_fut[i].value
                     ELSE e_results[k]]
            /\ UNCHANGED e_pc
    /\ UNCHANGED <<hvars, cvars, svars, sent, rvars, lvars, e_input, e_timescale>>

\* for future in as_completed(futures): result = future.result();
\* if result: results[device_name] = result
EngineCollect(i) ==
    /\ e_pc = "collect"
    /\ e_fut[i].state = "done"
    /\ e_fut' = [e_fut EXCEPT ![i].state = "collected"]
    /\ e_results' =
          IF e_fut[i].value.none
          THEN e_results
          ELSE [k \in DOMAIN e_results \cup {e_input[i].device} |->
                   IF k = e_input[i].device THEN e_fut[i].value
                   ELSE e_results[k]]
    /\ UNCHANGED <<hvars, cvars, svars, sent, rvars, lvars, e_input, e_timescale, e_pc>>

\* return results
EngineReturn ==
    /\ e_pc = "collect"
    /\ \A i \in DOMAIN e_fut : e_fut[i].state = "collected"
    /\ e_pc' = "done"
    /\ UNCHANGED <<hvars, cvars, svars, sent, rvars, lvars, e_input, e_timescale, e_fut, e_results>>

\* one call of process_multiple_devices(device_data, timescale) for every
\* device_data list and the 1 s and 2 s timescales
EngineInit ==
    /\ HandlerInit
    /\ NoController
    /\ e_input \in EngineInputs
    /\ e_timescale \in {2, 4}
    /\ e_fut = <<>>
    /\ e_results = EmptyMap
    /\ e_pc = "idle"
    /\ SessionIdle
    /\ sent = NothingSent
    /\ RecorderIdle
    /\ LifeIdle

EngineNext ==
    \/ EngineSubmit
    \/ \E i \in DOMAIN e_fut : EngineRun(i)
    \/ \E i \in DOMAIN e_fut : EngineCollect(i)
    \/ EngineReturn

SpecEngine == EngineInit /\ [][EngineNext]_vars

\* the devices of the list whose data has both frontal channels, is long
\* enough for the timescale and does not make the computation raise
Succeeding ==
    {e_input[i].device :
        i \in {j \in DOMAIN e_input :
                 /\ {"AF7", "AF8"} \subseteq e_input[j].data.chans
                 /\ e_input[j].data.len >= ExpectedSamples(e_timescale)
                 /\ ~e_input[j].data.raises}}

\* C13: process_multiple_devices returns a map whose keys are exactly the
\* devices whose own computation succeeded, whatever happened to the others
C13_FailureIsolation ==
    e_pc = "done" => DOMAIN e_results = Succeeding

\* a call with two devices returned one of them: the other failed
C13_Witness ==
    /\ e_pc = "done"
    /\ Len(e_input) = 2
    /\ Cardinality(DOMAIN e_results) = 1
    /\ Cardinality(Succeeding) = 1

\* ------------------------------------------------------------------------
\* DataRecorder
\* ------------------------------------------------------------------------

\* buffer_size: samples in a batch that trigger a write
BufferSize == 2

\* longest list handed to record_samples_batch
MaxBatch == 2

\* samples one thread offers to one recording
MaxAccepted == 3

\* file-system errors raised in one behaviour
MaxFaults == 1

\* outcome of one _flush_buffer: Flushed when the rows and file.flush()
\* went through, k >= 0 when an exception was raised after k rows reached
\* the file
Flushed == -1

\* _flush_buffer does nothing for an unknown device or an empty batch
FlushSkips(d) ==
    \/ d \notin DOMAIN buffers
    \/ buffers[d] = <<>>

\* outcomes _flush_buffer(d) can have in the current state: a closed handle
\* raises at the first writerow; an open one may fail anywhere
FlushOutcomes(d) ==
    IF FlushSkips(d) THEN {Flushed}
    ELSE IF ~csv_files[d] THEN {0}
    ELSE {Flushed} \cup
         (IF io_faults < MaxFaults THEN 0..Len(buffers[d]) ELSE {})

\* rows _flush_buffer(d) adds to the file
FlushRows(d, out) ==
    IF FlushSkips(d) THEN <<>>
    ELSE IF out = Flushed THEN buffers[d]
    ELSE Take(buffers[d], out)

\* the batch _flush_buffer(d) leaves: cleared only after every row and
\* file.flush() succeeded, kept whole when the exception was swallowed
FlushLeft(d, out) ==
    IF FlushSkips(d) THEN <<>>
    ELSE IF out = Flushed THEN <<>>
    ELSE buffers[d]

\* 1 when the outcome is a file-system error
FlushFault(d, out) ==
    IF ~FlushSkips(d) /\ csv_files[d] /\ out # Flushed THEN 1 ELSE 0

\* values uuid4 gives start_session for a session id
SessionIds == {1, 2}

\* start_recording that does not look at is_recording
StartRecordingOverwrite(sid, devs) ==
    /\ is_recording' = TRUE
    /\ session_id' = sid
    /\ start_ret' = "started"
    /\ csv_files' = [d \in devs |-> TRUE]
    /\ buffers' = [d \in devs |-> <<>>]
    /\ sample_counts' = [d \in devs |-> 0]
    /\ disk' = [d \in devs |-> <<>>]
    /\ metadata' = [ended |-> FALSE, sample_counts |-> EmptyMap]
    /\ accepted' = [d \in devs |-> <<>>]
    /\ UNCHANGED <<buffer_lock, rec_pc, rec_dev, rec_n, stop_pc, stop_ret,
                   io_faults>>

\* start_recording(session_id, subject_ids): refused while recording; else
\* a new session directory with one CSV file (header only) per device
StartRecording(sid, devs) ==
    IF is_recording
    THEN /\ start_ret' = "refused"
         /\ UNCHANGED <<is_recording, csv_files, buffers, sample_counts,
                        buffer_lock, disk, metadata, rec_pc, rec_dev, rec_n,
                        stop_pc, stop_ret, session_id, accepted, io_faults>>
    ELSE /\ is_recording' = TRUE
         /\ session_id' = sid
         /\ start_ret' = "started"
         /\ csv_files' = [d \in devs |-> TRUE]
         /\ buffers' = [d \in devs |-> <<>>]
         /\ sample_counts' = [d \in devs |-> 0]
         /\ disk' = [d \in devs |-> <<>>]
         /\ metadata' = [ended |-> FALSE, sample_counts |-> EmptyMap]
         /\ accepted' = [d \in devs |-> <<>>]
         /\ UNCHANGED <<buffer_lock, rec_pc, rec_dev, rec_n, stop_pc,
                        stop_ret, io_faults>>

\* start_recording called on the recorder by a client of the class
StartRecordingCall(sid, devs) ==
    /\ shut = "up"
    /\ StartRecording(sid, devs)
    /\ UNCHANGED <<hvars, cvars, evars, svars, sent, lvars>>

\* record_sample (n = 1) and record_samples_batch (n samples), up to the
\* with statement: the call returns at once when not recording or for a
\* device without a writer
RecordCheck(d, n) ==
    /\ rec_pc = "idle"
    /\ is_recording
    /\ d \in DOMAIN csv_files
    /\ Len(accepted[d]) + n <= MaxAccepted
    /\ rec_pc' = "wait"
    /\ rec_dev' = d
    /\ rec_n' = n
    /\ UNCHANGED <<hvars, cvars, evars, svars, sent, lvars>>
    /\ UNCHANGED <<is_recording, csv_files, buffers, sample_counts,
                   buffer_lock, disk, metadata, stop_pc, stop_ret, accepted,
                   session_id, start_ret, io_faults>>

\* the samples the thread hands over: numbered in the order of acceptance
NewSamples(d, n) == [i \in 1..n |-> Len(accepted[d]) + i]

\* with self.buffer_lock: append / extend and count. A batch dict emptied
\* by stop_recording in the meantime raises KeyError out of the call.
RecordAppend ==
    /\ rec_pc = "wait"
    /\ buffer_lock = 0
    /\ IF rec_dev \in DOMAIN buffers
       THEN /\ buffers' = [buffers EXCEPT ![rec_dev] =
                              @ \o NewSamples(rec_dev, rec_n)]
            /\ sample_counts' = [sample_counts EXCEPT ![rec_dev] = @ + rec_n]
            /\ accepted' = [accepted EXCEPT ![rec_dev] =
                               @ \o NewSamples(rec_dev, rec_n)]
            /\ buffer_lock' = 1
            /\ rec_pc' = "locked"
       ELSE /\ rec_pc' = "idle"
            /\ UNCHANGED <<buffers, sample_counts, accepted, buffer_lock>>
    /\ UNCHANGED <<hvars, cvars, evars, svars, sent, lvars>>
    /\ UNCHANGED <<is_recording, csv_files, disk, metadata, rec_dev, rec_n,
                   stop_pc, stop_ret, session_id, start_ret, io_faults>>

\* still under the lock: flush when the batch reached buffer_size, then
\* leave the with statement
RecordFlush(out) ==
    /\ rec_pc = "locked"
    /\ IF rec_dev \in DOMAIN buffers /\ Len(buffers[rec_dev]) >= BufferSize
       THEN /\ out \in FlushOutcomes(rec_dev)
            /\ disk' = [disk EXCEPT ![rec_dev] =
                           @ \o FlushRows(rec_dev, out)]
            /\ buffers' = [buffers EXCEPT ![rec_dev] =
                              FlushLeft(rec_dev, out)]
            /\ io_faults' = io_faults + FlushFault(rec_dev, out)
       ELSE /\ out = Flushed
            /\ UNCHANGED <<disk, buffers, io_faults>>
    /\ buffer_lock' = 0
    /\ rec_pc' = "idle"
    /\ UNCHANGED <<hvars, cvars, evars, svars, sent, lvars>>
    /\ UNCHANGED <<is_recording, csv_files, sample_counts, metadata,
                   rec_dev, rec_n, stop_pc, stop_ret, session_id, start_ret,
                   accepted>>

\* stop_recording(), entry: returns {} at once when not recording
StopRecordingCall ==
    /\ IF is_recording
       THEN /\ stop_pc' = "flush"
            /\ UNCHANGED stop_ret
       ELSE /\ stop_pc' = "ret"
            /\ stop_ret' = [none |-> FALSE, paths |-> {}]
    /\ UNCHANGED <<is_recording, csv_files, buffers, sample_counts,
                   buffer_lock, disk, metadata, rec_pc, rec_dev, rec_n,
                   session_id, start_ret, accepted, io_faults>>

\* faults among the chosen outcomes
FaultsOf(out) ==
    Cardinality({d \in DOMAIN buffers : FlushFault(d, out[d]) = 1})

\* stop_recording(): with self.buffer_lock, _flush_buffer for every device
StopFlush(out) ==
    /\ stop_pc = "flush"
    /\ buffer_lock = 0
    /\ \A d \in DOMAIN buffers : out[d] \in FlushOutcomes(d)
    /\ io_faults + FaultsOf(out) <= MaxFaults
    /\ disk' = [d \in DOMAIN disk |->
                  IF d \in DOMAIN buffers
                  THEN disk[d] \o FlushRows(d, out[d]) ELSE disk[d]]
    /\ buffers' = [d \in DOMAIN buffers |-> FlushLeft(d, out[d])]
    /\ io_faults' = io_faults + FaultsOf(out)
    /\ stop_pc' = "close"
    /\ UNCHANGED <<hvars, cvars, evars, svars, sent, lvars>>
    /\ UNCHANGED <<is_recording, csv_files, sample_counts, buffer_lock,
                   metadata, rec_pc, rec_dev, rec_n, stop_ret, session_id,
                   start_ret, accepted>>

\* stop_recording(), after the lock is released: close every file, write
\* end_time and sample_counts into metadata.json, reset the fields and
\* return the paths; an exception raised by the metadata file is caught and
\* {} is returned with the fields as they are
StopFinish(ok) ==
    /\ stop_pc = "close"
    /\ ok \/ io_faults < MaxFaults
    /\ IF ok
       THEN /\ metadata' = [ended |-> TRUE, sample_counts |-> sample_counts]
            /\ is_recording' = FALSE
            /\ csv_files' = EmptyMap
            /\ buffers' = EmptyMap
            /\ sample_counts' = EmptyMap
            /\ session_id' = 0
            /\ stop_ret' = [none |-> FALSE, paths |-> DOMAIN csv_files]
            /\ UNCHANGED io_faults
       ELSE /\ csv_files' = [d \in DOMAIN csv_files |-> FALSE]
            /\ stop_ret' = [none |-> FALSE, paths |-> {}]
            /\ io_faults' = io_faults + 1
            /\ UNCHANGED <<metadata, is_recording, buffers, sample_counts,
                           session_id>>
    /\ stop_pc' = "ret"
    /\ UNCHANGED <<hvars, cvars, evars, svars, sent, lvars>>
    /\ UNCHANGED <<buffer_lock, disk, rec_pc, rec_dev, rec_n, start_ret,
                   accepted>>

\* ------------------------------------------------------------------------
\* SessionManager
\* ------------------------------------------------------------------------

\* BUILTIN_PROTOCOLS: the feedback_enabled flag of every phase, in order
BuiltinProtocols ==
    [meditation_baseline |-> <<FALSE, TRUE, FALSE>>,
     quick_test |-> <<TRUE>>,
     eyes_open_closed |-> <<FALSE, FALSE, FALSE, FALSE>>]

\* BUILTIN_PROTOCOLS: name.lower() of every phase, in order
PhaseNames ==
    [meditation_baseline |-> <<"baseline", "training", "cooldown">>,
     quick_test |-> <<"test">>,
     eyes_open_closed |-> <<"eyes open", "eyes closed 1", "eyes open 2",
                            "eyes closed 2">>]

\* word in name.lower(), for the phase names of BUILTIN_PROTOCOLS: a name
\* contains one of the three words only when it is that word
NameHas(name, word) == name = word

\* the phase type start_session gives the first phase
PhaseAtStart(name) ==
    IF NameHas(name, "baseline") THEN "baseline"
    ELSE IF NameHas(name, "training") THEN "training"
    ELSE "baseline"

\* the phase type update_phase gives the next phase
PhaseOnAdvance(name) ==
    IF NameHas(name, "baseline") THEN "baseline"
    ELSE IF NameHas(name, "training") THEN "training"
    ELSE IF NameHas(name, "cooldown") THEN "cooldown"
    ELSE "training"

\* the phase type resume_session restores
PhaseOnResume(name) ==
    IF NameHas(name, "baseline") THEN "baseline"
    ELSE IF NameHas(name, "training") THEN "training"
    ELSE "training"

\* is_feedback_enabled(); phases[phase_index] raises IndexError, and no
\* feedback flag is read, while update_phase has moved the cursor past the
\* last phase and its stop_session is under way
IsFeedbackEnabled ==
    IF ~current_session.active
    THEN FALSE
    ELSE IF phase_index >= Len(BuiltinProtocols[current_session.protocol])
         THEN FALSE
         ELSE BuiltinProtocols[current_session.protocol][phase_index + 1]

\* the checks of start_session without the test of the device names
StartRefusedAnyDevice(protocol, devs) ==
    \/ current_session.active
    \/ protocol \notin DOMAIN BuiltinProtocols
    \/ Cardinality(devs) < 1
    \/ Cardinality(devs) > 4

\* the checks of start_session: a session active, a protocol that
\* get_protocol does not find, a device count outside
\* min_devices..max_devices, a device that is not connected
StartRefused(protocol, devs) ==
    \/ current_session.active
    \/ protocol \notin DOMAIN BuiltinProtocols
    \/ Cardinality(devs) < 1
    \/ Cardinality(devs) > 4
    \/ ~(devs \subseteq stream_handlers)

\* start_session that skips the check for an active session
StartSessionReplace(protocol, devs) ==
    /\ shut = "up"
    /\ IF StartRefused(protocol, devs) /\ ~current_session.active
       THEN /\ session_ret' = "None"
            /\ UNCHANGED <<current_session, phase_index, current_phase,
                           rvars>>
       ELSE \E sid \in SessionIds \ {session_id} :
            /\ current_session' =
                  [active |-> TRUE, id |-> sid, protocol |-> protocol,
                   devices |-> devs, start_n |-> [d \in devs |-> nTs[d]]]
            /\ StartRecording(sid, devs)
            /\ phase_index' = 0
            /\ current_phase' = PhaseAtStart(PhaseNames[protocol][1])
            /\ session_ret' = "id"
    /\ UNCHANGED <<hvars, cvars, evars, sent, lvars>>

\* start_session(protocol_name, subject_ids): returns None when a check
\* fails; else creates the session, starts the recording and returns the
\* session id. start_n is start_time counted in samples pulled per device.
StartSession(protocol, devs) ==
    /\ shut = "up"
    /\ IF StartRefused(protocol, devs)
       THEN /\ session_ret' = "None"
            /\ UNCHANGED <<current_session, phase_index, current_phase,
                           rvars>>
       ELSE \E sid \in SessionIds \ {session_id} :
            /\ current_session' =
                  [active |-> TRUE, id |-> sid, protocol |-> protocol,
                   devices |-> devs, start_n |-> [d \in devs |-> nTs[d]]]
            /\ StartRecording(sid, devs)
            /\ phase_index' = 0
            /\ current_phase' = PhaseAtStart(PhaseNames[protocol][1])
            /\ session_ret' = "id"
    /\ UNCHANGED <<hvars, cvars, evars, sent, lvars>>

\* stop_session(): returns False with no session active; else goes on to
\* the call of stop_recording()
StopSession ==
    /\ shut = "up"
    /\ stop_pc = "idle"
    /\ IF current_session.active
       THEN /\ StopRecordingCall
            /\ UNCHANGED svars
       ELSE /\ session_ret' = "False"
            /\ UNCHANGED <<current_session, phase_index, current_phase,
                           rvars>>
    /\ UNCHANGED <<hvars, cvars, evars, sent, lvars>>

\* stop_session(), after stop_recording() returned: the session is cleared
\* and True is returned
StopSessionReturn ==
    /\ stop_pc = "ret"
    /\ current_session.active
    /\ stop_pc' = "idle"
    /\ current_session' = NoSession
    /\ phase_index' = 0
    /\ current_phase' = "idle"
    /\ session_ret' = "True"
    /\ UNCHANGED <<hvars, cvars, evars, sent, lvars>>
    /\ UNCHANGED <<is_recording, csv_files, buffers, sample_counts,
                   buffer_lock, disk, metadata, rec_pc, rec_dev, rec_n,
                   stop_ret, session_id, start_ret, accepted, io_faults>>

\* the cursor moved on by two phases
NextIndexSkip(index) == index + 2

\* self.phase_index += 1
NextIndex(index) == index + 1

\* update_phase() with a session active; elapsed tells whether
\* time.time() - phase_start_time has reached the duration of the current
\* phase. Not elapsed: nothing changes. Elapsed: the cursor moves on, and
\* either the next phase begins or, past the last phase, stop_session() is
\* called
UpdatePhase(elapsed) ==
    /\ shut = "up"
    /\ current_session.active
    /\ stop_pc = "idle"
    /\ IF ~elapsed
       THEN UNCHANGED <<phase_index, current_phase, rvars>>
       ELSE /\ phase_index' = NextIndex(phase_index)
            /\ IF NextIndex(phase_index) >=
                     Len(PhaseNames[current_session.protocol])
               THEN /\ StopRecordingCall
                    /\ UNCHANGED current_phase
               ELSE /\ current_phase' =
                          PhaseOnAdvance(PhaseNames[current_session.protocol]
                                                   [NextIndex(phase_index) + 1])
                    /\ UNCHANGED rvars
    /\ UNCHANGED <<hvars, cvars, evars, current_session, session_ret, sent,
                   lvars>>

\* pause_session(): False with no session active; else the phase becomes
\* PAUSED and True is returned
PauseSession ==
    /\ shut = "up"
    /\ stop_pc = "idle"
    /\ IF current_session.active
       THEN /\ current_phase' = "paused"
            /\ session_ret' = "True"
       ELSE /\ session_ret' = "False"
            /\ UNCHANGED current_phase
    /\ UNCHANGED <<hvars, cvars, evars, current_session, phase_index, sent,
                   rvars, lvars>>

\* resume_session(): False with no session active or a phase other than
\* PAUSED; else the phase type is derived from the name of the phase under
\* the cursor and True is returned
ResumeSession ==
    /\ shut = "up"
    /\ stop_pc = "idle"
    /\ IF ~current_session.active \/ current_phase # "paused"
       THEN /\ session_ret' = "False"
            /\ UNCHANGED current_phase
       ELSE /\ current_phase' =
                  PhaseOnResume(PhaseNames[current_session.protocol]
                                          [phase_index + 1])
            /\ session_ret' = "True"
    /\ UNCHANGED <<hvars, cvars, evars, current_session, phase_index, sent,
                   rvars, lvars>>

\* the steps of a stop_recording() under way
StopRecordingStep ==
    \/ \E out \in [DOMAIN buffers -> Flushed..MaxAccepted] : StopFlush(out)
    \/ \E ok \in BOOLEAN : StopFinish(ok)

\* ------------------------------------------------------------------------
\* Session specification: one connected device with a full ring, its
\* source and pull thread, and the session calls
\* ------------------------------------------------------------------------

SessionInit ==
    /\ HandlersStarted(StreamDevices, FullRings)
    /\ ControllerStarted(StreamDevices)
    /\ RestIdle

SessionNext ==
    \/ \E d \in StreamDevices : Produce(d)
    \/ \E d \in StreamDevices : PullIteration(d)
    \/ \E protocol \in {"quick_test", "meditation_baseline"} :
          StartSession(protocol, StreamDevices)
    \/ \E elapsed \in BOOLEAN : UpdatePhase(elapsed)
    \/ StopSession
    \/ StopRecordingStep
    \/ StopSessionReturn

SpecSession == SessionInit /\ [][SessionNext]_vars

\* Feedback specification: the calc thread and the broadcast loop of one
\* connected device with a full ring, and the session calls
FeedbackNext ==
    \/ CalcStep(1)
    \/ PubStep
    \/ \E protocol \in {"quick_test", "meditation_baseline"} :
          StartSession(protocol, StreamDevices)
    \/ \E elapsed \in BOOLEAN : UpdatePhase(elapsed)
    \/ StopSession
    \/ StopRecordingStep
    \/ StopSessionReturn

SpecFeedback == SessionInit /\ [][FeedbackNext]_vars

\* C14: a message handed to the subscriber transport while the session
\* query feedback_enabled is false is marked feedback_disabled (the other
\* allowed outcome is that no message is handed over at that tick)
C14_FeedbackDisabledMarked ==
    [][(upc = "send" /\ upc' = "sleep" /\ ~IsFeedbackEnabled)
          => sent'.feedback_disabled]_vars

\* C18: when stop_session returns, the file of every device of the session
\* has a row for every sample the pull loop appended to the device's
\* buffers since the session started
C18_LosslessPathWired ==
    [][(stop_pc = "ret" /\ stop_pc' = "idle" /\ current_session.active)
          => \A d \in current_session.devices :
                /\ d \in DOMAIN disk
                /\ Len(disk[d]) >= nTs[d] - current_session.start_n[d]]_vars

\* ------------------------------------------------------------------------
\* Recorder specification: sessions over one connected device, and one
\* thread that calls record_sample / record_samples_batch
\* ------------------------------------------------------------------------

RecorderNext ==
    \/ \E protocol \in {"quick_test", "meditation_baseline", "unknown"} :
          \E devs \in {StreamDevices, Devices} : StartSession(protocol, devs)
    \/ \E elapsed \in BOOLEAN : UpdatePhase(elapsed)
    \/ StopSession
    \/ StopRecordingStep
    \/ StopSessionReturn
    \/ \E d \in StreamDevices : \E n \in 1..MaxBatch : RecordCheck(d, n)
    \/ RecordAppend
    \/ \E out \in Flushed..MaxAccepted : RecordFlush(out)
    \/ \E sid \in SessionIds \ {session_id} :
          StartRecordingCall(sid, StreamDevices)

SpecRecorder == SessionInit /\ [][RecorderNext]_vars

\* C17: once stop_recording has returned and no record call is under way,
\* the file of every device holds the accepted samples, each once, in the
\* order of acceptance
C17_LosslessRecorderWithRetry ==
    (stop_pc = "ret" /\ rec_pc = "idle")
        => \A d \in DOMAIN disk : disk[d] = accepted[d]

\* C19: while recording, with nobody inside the lock and no stop under
\* way, sample_counts is rows on file plus samples in the batch; and the
\* sample_counts of a finished metadata record are the row counts
C19_SampleCountAccounting ==
    /\ (is_recording /\ buffer_lock = 0 /\ stop_pc = "idle")
          => \A d \in DOMAIN sample_counts :
                sample_counts[d] = Len(disk[d]) + Len(buffers[d])
    /\ metadata.ended
          => \A d \in DOMAIN metadata.sample_counts :
                metadata.sample_counts[d] = Len(disk[d])

\* C20: the flush of stop_recording writes every batch to its file and
\* leaves it empty; and when stop_recording returns from an active
\* recording the files are closed, the metadata record has the end time
\* and the final counts, the value returned maps every device to its file
\* and the recorder is as after construction
C20_RecorderStop ==
    /\ [][(stop_pc = "flush" /\ stop_pc' = "close")
            => \A d \in DOMAIN buffers :
                  /\ buffers'[d] = <<>>
                  /\ disk'[d] = disk[d] \o buffers[d]]_vars
    /\ [][(stop_pc = "close" /\ stop_pc' = "ret")
            => /\ ~is_recording'
               /\ csv_files' = EmptyMap
               /\ buffers' = EmptyMap
               /\ sample_counts' = EmptyMap
               /\ metadata'.ended
               /\ metadata'.sample_counts = sample_counts
               /\ session_id' = 0
               /\ stop_ret'.paths = DOMAIN disk]_vars

\* ------------------------------------------------------------------------
\* main.py lifespan, the cleanup after yield
\* ------------------------------------------------------------------------

\* the pull loop seen from other threads: while self.running is false
PullExit(d) ==
    /\ ppc[d] = "loop"
    /\ ~running[d]
    /\ ppc' = [ppc EXCEPT ![d] = "exit"]
    /\ UNCHANGED <<cvars, xvars>>
    /\ UNCHANGED <<srcq, produced, srcAlive, hphase, inlet, sample_rate,
                   rolling_buffers, timestamps_buffer, ts_maxlen,
                   recording_buffer, running, lock, chunk, pidx, stopc,
                   flushMark, nCh, nTs, nRec, obs>>

\* if ui_broadcast_task: cancel it and await it. The cleanup starts when no
\* request handler is in a synchronous call.
ShutCancelPublish ==
    /\ shut = "up"
    /\ ctl = "idle"
    /\ stop_pc = "idle"
    /\ \A d \in Devices : stopc[d] = "idle"
    /\ upc' = "none"
    /\ tlog' = IF upc # "none" THEN <<"publish">> ELSE <<>>
    /\ shut' = "compute"
    /\ UNCHANGED <<hvars, evars, svars, sent, rvars, dvars>>
    /\ UNCHANGED <<stream_handlers, rc_exists, ctl, rc_running,
                   latest_metrics, metrics_lock, nthreads, cpc, citer, cidx,
                   fill_ratio, device_data, new_metrics, upd_left, snapshot,
                   now, committed>>

\* if rate_controller and rate_controller.running: rate_controller.stop(),
\* up to calc_thread.join(timeout=2.0)
ShutStopController ==
    /\ shut = "compute"
    /\ ctl = "idle"
    /\ IF rc_exists /\ rc_running
       THEN /\ rc_running' = FALSE
            /\ ctl' = "joining"
            /\ tlog' = Append(tlog, "compute")
            /\ UNCHANGED shut
       ELSE /\ shut' = "ingestors"
            /\ UNCHANGED <<rc_running, ctl, tlog>>
    /\ UNCHANGED <<hvars, evars, svars, sent, rvars, dvars>>
    /\ UNCHANGED <<stream_handlers, rc_exists, latest_metrics, metrics_lock,
                   nthreads, cpc, citer, cidx, fill_ratio, device_data,
                   new_metrics, upd_left, upc, snapshot, now, committed>>

\* the join returns: the calc thread ended, or the 2 s ran out with the
\* thread alive, which stop() only logs
ShutJoinController(timedOut) ==
    /\ shut = "compute"
    /\ ctl = "joining"
    /\ timedOut \/ cpc[nthreads] = "exit"
    /\ ctl' = "idle"
    /\ shut' = "ingestors"
    /\ UNCHANGED <<hvars, evars, svars, sent, rvars, tlog, dvars>>
    /\ UNCHANGED <<stream_handlers, rc_exists, rc_running, latest_metrics,
                   metrics_lock, nthreads, cpc, citer, cidx, fill_ratio,
                   device_data, new_metrics, upd_left, upc, snapshot, now,
                   committed>>

\* handlers of the map that stop() has still to stop, in iteration order
ToStop == SelectSeq(HandlerKeys, LAMBDA d : running[d])

\* for handler in stream_handlers.values(): handler.stop(), up to
\* pull_thread.join(timeout=2.0)
ShutStopHandler ==
    /\ shut = "ingestors"
    /\ \A d \in Devices : stopc[d] = "idle"
    /\ ToStop # <<>>
    /\ running' = [running EXCEPT ![Head(ToStop)] = FALSE]
    /\ stopc' = [stopc EXCEPT ![Head(ToStop)] = "joining"]
    /\ tlog' = Append(tlog, "ingestors")
    /\ UNCHANGED <<cvars, evars, svars, sent, rvars, shut, dvars>>
    /\ UNCHANGED <<srcq, produced, srcAlive, hphase, inlet, sample_rate,
                   rolling_buffers, timestamps_buffer, ts_maxlen,
                   recording_buffer, lock, ppc, chunk, pidx, flushMark,
                   nCh, nTs, nRec, obs>>

\* the join returns (the pull thread ended, or the 2 s ran out, which
\* stop() only logs) and the inlet is closed
ShutJoinHandler(d, timedOut) ==
    /\ shut = "ingestors"
    /\ stopc[d] = "joining"
    /\ timedOut \/ ppc[d] = "exit"
    /\ inlet' = [inlet EXCEPT ![d] = FALSE]
    /\ stopc' = [stopc EXCEPT ![d] = "idle"]
    /\ UNCHANGED <<cvars, xvars>>
    /\ UNCHANGED <<srcq, produced, srcAlive, hphase, sample_rate,
                   rolling_buffers, timestamps_buffer, ts_maxlen,
                   recording_buffer, running, lock, ppc, chunk, pidx,
                   flushMark, nCh, nTs, nRec, obs>>

\* if session_manager.current_session: session_manager.stop_session(), up
\* to the call of stop_recording()
ShutStopSession ==
    /\ shut = "ingestors"
    /\ \A d \in Devices : stopc[d] = "idle"
    /\ ToStop = <<>>
    /\ IF current_session.active
       THEN /\ StopRecordingCall
            /\ tlog' = Append(tlog, "recorder")
            /\ shut' = "session"
       ELSE /\ shut' = "processor"
            /\ UNCHANGED <<rvars, tlog>>
    /\ UNCHANGED <<hvars, cvars, evars, svars, sent, dvars>>

\* processor.shutdown() and "Shutdown complete"
ShutProcessor ==
    /\ \/ shut = "processor"
       \/ shut = "session" /\ ~current_session.active
    /\ shut' = "done"
    /\ UNCHANGED <<hvars, cvars, evars, svars, sent, rvars, tlog, dvars>>

\* ------------------------------------------------------------------------
\* Lifecycle specification: one connected device, its source and threads,
\* the broadcast loop, a session, disconnect and application shutdown
\* ------------------------------------------------------------------------

ShutdownNext ==
    \/ \E d \in StreamDevices : Produce(d)
    \/ \E d \in StreamDevices : PullIteration(d)
    \/ \E d \in StreamDevices : PullExit(d)
    \/ CalcStep(1)
    \/ PubStep
    \/ StartSession("quick_test", StreamDevices)
    \/ \E d \in StreamDevices : Disconnect(d)
    \/ ShutCancelPublish
    \/ ShutStopController
    \/ \E timedOut \in BOOLEAN : ShutJoinController(timedOut)
    \/ ShutStopHandler
    \/ \E d \in StreamDevices :
          \E timedOut \in BOOLEAN : ShutJoinHandler(d, timedOut)
    \/ ShutStopSession
    \/ StopRecordingStep
    \/ StopSessionReturn
    \/ ShutProcessor

SpecShutdown == SessionInit /\ [][ShutdownNext]_vars

\* position of a component in the teardown order
TeardownRank ==
    [publish |-> 1, compute |-> 2, ingestors |-> 3, recorder |-> 4]

\* C15: in every teardown the components stopped so far were stopped in
\* the order publish task, compute thread, ingestors, recorder
C15_TeardownOrder ==
    \A i, j \in DOMAIN tlog :
        i < j => TeardownRank[tlog[i]] <= TeardownRank[tlog[j]]

\* C16: once the cleanup of lifespan has completed no pull thread and no
\* calc thread is alive, no recorder file is open and no recorder batch
\* holds a sample
C16_CleanShutdown ==
    shut = "done" =>
        /\ \A d \in Devices : ppc[d] \in {"none", "exit"}
        /\ \A t \in CalcThreads : cpc[t] \in {"none", "exit"}
        /\ \A d \in DOMAIN csv_files : ~csv_files[d]
        /\ \A d \in DOMAIN buffers : buffers[d] = <<>>

\* C21: a start_recording (called directly or by start_session) that finds
\* a recording active returns failure and leaves the session id, the open
\* files, the batches, the sample counts and the session directory as
\* they are
C21_RecorderDoubleStart ==
    [][(/\ is_recording
        /\ \/ start_ret' # start_ret
           \/ ~current_session.active /\ current_session'.active)
          => /\ start_ret' = "refused"
             /\ UNCHANGED <<is_recording, session_id, csv_files, buffers,
                            sample_counts, disk, metadata, accepted>>]_vars

\* a start was refused while the active recording holds a batch and rows
C21_Witness ==
    /\ is_recording
    /\ start_ret = "refused"
    /\ session_id # 0
    /\ \E d \in DOMAIN buffers : buffers[d] # <<>> /\ disk[d] # <<>>

\* C22: with no file-system error at all, a record call running along
\* stop_recording or start_recording never loses a batch that holds
\* samples (a batch shrinks or disappears only by being written), never
\* raises (it leaves the with statement only after its append) and never
\* flushes to a closed file
C22_RecorderThreadSafety ==
    /\ [][io_faults' = 0 =>
            \A d \in DOMAIN buffers :
                (\/ d \notin DOMAIN buffers'
                 \/ Len(buffers'[d]) < Len(buffers[d]))
                    => disk'[d] = disk[d] \o buffers[d]]_vars
    /\ [][io_faults' = 0 => ~(rec_pc = "wait" /\ rec_pc' = "idle")]_vars
    /\ [][(io_faults' = 0 /\ rec_pc = "locked" /\ rec_pc' = "idle")
            => /\ rec_dev \in DOMAIN buffers
               /\ Len(buffers[rec_dev]) >= BufferSize => csv_files[rec_dev]
         ]_vars

\* the recorder fields a session call can touch
RecorderState ==
    <<is_recording, session_id, csv_files, buffers, sample_counts, disk,
      metadata, start_ret, stop_pc, stop_ret>>

\* C23: a start_session or stop_session that returns failure changes
\* neither the session, the phase cursor nor the recorder; start_session
\* with a session active returns None and stop_session with none active
\* returns False; a session comes into being only by a start_session that
\* found no session active, and an active session changes only by being
\* destroyed by stop_session
C23_SessionConflict ==
    /\ [][(session_ret' # session_ret /\ session_ret' \in {"None", "False"})
            => UNCHANGED <<current_session, phase_index, current_phase,
                           RecorderState>>
         ]_vars
    /\ [][(session_ret' # session_ret /\ current_session.active)
            => session_ret' \in {"None", "True"}]_vars
    /\ [][(session_ret' # session_ret /\ ~current_session.active)
            => session_ret' \in {"None", "False", "id"}]_vars
    /\ [][current_session' # current_session
            => \/ /\ ~current_session.active
                  /\ current_session'.active
                  /\ session_ret' = "id"
               \/ /\ current_session.active
                  /\ current_session' = NoSession
                  /\ session_ret' = "True"]_vars

\* a start_session was refused while a session is active and recording
C23_Witness ==
    /\ current_session.active
    /\ session_ret = "None"
    /\ is_recording
    /\ \E d \in DOMAIN buffers : buffers[d] # <<>>

\* stop() of handler d has returned
Stopped(d) ==
    /\ hphase[d] = "started"
    /\ ~running[d]
    /\ stopc[d] = "idle"

\* C24: once stop() has returned the inlet is released, the pull loop adds
\* no sample to the rings or to the log, and nothing, a further stop()
\* included, changes the handler's running flag or inlet
C24_IngestorStop ==
    /\ [](\A d \in Devices : Stopped(d) => ~inlet[d])
    /\ [][\A d \in Devices :
            Stopped(d) => /\ nCh'[d] = nCh[d]
                          /\ nTs'[d] = nTs[d]
                          /\ nRec'[d] = nRec[d]
                          /\ running'[d] = running[d]
                          /\ inlet'[d] = inlet[d]]_vars

\* ------------------------------------------------------------------------
\* LSLStreamHandler.start, the failing outcomes
\* ------------------------------------------------------------------------

\* the places where start() can fail
StartFailures == {"resolve", "inlet", "flush", "thread"}

\* start() returns False: resolve_byprop found no stream within the
\* timeout ("resolve"), or the except branch caught an exception raised
\* after the inlet was created ("inlet"), by a pull of
\* _flush_inlet_buffer ("flush"), or by pull_thread.start() ("thread",
\* which follows self.running = True)
StartFail(d, at) ==
    /\ at \in StartFailures
    /\ at \in {"resolve", "inlet"} => hphase[d] = "created"
    /\ at \in {"flush", "thread"} => hphase[d] = "flushing"
    /\ at = "thread" => srcq[d] = <<>>
    /\ hphase' = [hphase EXCEPT ![d] = "failed"]
    /\ inlet' = [inlet EXCEPT ![d] = @ \/ at = "inlet"]
    /\ running' = [running EXCEPT ![d] = at = "thread"]
    /\ flushMark' = [flushMark EXCEPT ![d] =
                        IF at = "thread" THEN produced[d] ELSE @]
    /\ obs' = [op |-> "start", dev |-> d, ok |-> FALSE]
    /\ UNCHANGED <<cvars, xvars>>
    /\ UNCHANGED <<srcq, produced, srcAlive, sample_rate, rolling_buffers,
                   timestamps_buffer, ts_maxlen, recording_buffer, lock, ppc,
                   chunk, pidx, stopc, nCh, nTs, nRec>>

\* ------------------------------------------------------------------------
\* Start specification: handlers that are started once, with every outcome
\* of start(), their sources and pull threads
\* ------------------------------------------------------------------------

StartNext ==
    \E d \in Devices :
        \/ Produce(d)
        \/ StartConnect(d, StreamRate)
        \/ \E at \in StartFailures : StartFail(d, at)
        \/ FlushPull(d)
        \/ PullIteration(d)

SpecStart == StreamInit /\ [][StartNext]_vars

\* C25: a start() that failed has returned False and left the handler not
\* running, with no pull thread
C25_StartFailure ==
    \A d \in Devices :
        hphase[d] = "failed" =>
            /\ obs.op = "start" => ~obs.ok
            /\ ~running[d]
            /\ ppc[d] = "none"

\* ------------------------------------------------------------------------
\* connect_device (POST /api/devices/connect)
\* ------------------------------------------------------------------------

\* attempts of the polling loop (max_wait_time / poll_interval)
MaxPolls == 2

\* DeviceManager.connect_device: a stream name that already has a
\* subprocess is refused and the request fails; else the subprocess is
\* started and the polling loop entered
ConnectBegin(d) ==
    /\ shut = "up"
    /\ conn_pc[d] = "idle"
    /\ IF d \in connected_processes
       THEN /\ conn_ret' = [conn_ret EXCEPT ![d] = "refused"]
            /\ UNCHANGED <<connected_processes, conn_pc, conn_polls>>
       ELSE /\ connected_processes' = connected_processes \cup {d}
            /\ conn_pc' = [conn_pc EXCEPT ![d] = "polling"]
            /\ conn_polls' = [conn_polls EXCEPT ![d] = 0]
            /\ conn_ret' = [conn_ret EXCEPT ![d] = "none"]
    /\ UNCHANGED <<hvars, cvars, evars, svars, sent, rvars, shut, tlog>>

\* the mutation of C26: the timeout branch without
\* device_manager.disconnect_device
ConnectTimeoutLeak(d) ==
    /\ conn_pc' = [conn_pc EXCEPT ![d] = "idle"]
    /\ conn_polls' = [conn_polls EXCEPT ![d] = @ + 1]
    /\ conn_ret' = [conn_ret EXCEPT ![d] = "timeout"]
    /\ UNCHANGED connected_processes
    /\ UNCHANGED <<hvars, cvars, evars, svars, sent, rvars, shut, tlog>>

\* handler is None after the loop: device_manager.disconnect_device
\* terminates the subprocess and forgets it, and HTTPException(500) is
\* raised
ConnectTimeout(d) ==
    /\ conn_pc' = [conn_pc EXCEPT ![d] = "idle"]
    /\ conn_polls' = [conn_polls EXCEPT ![d] = @ + 1]
    /\ conn_ret' = [conn_ret EXCEPT ![d] = "timeout"]
    /\ connected_processes' = connected_processes \ {d}
    /\ UNCHANGED <<hvars, cvars, evars, svars, sent, rvars, shut, tlog>>

\* an attempt whose start() returned False, with attempts left: the
\* handler of the attempt is dropped and the loop sleeps again
ConnectRetry(d) ==
    /\ conn_polls' = [conn_polls EXCEPT ![d] = @ + 1]
    /\ UNCHANGED <<connected_processes, conn_pc, conn_ret>>
    /\ UNCHANGED <<hvars, cvars, evars, svars, sent, rvars, shut, tlog>>

\* LSLStreamHandler(stream_name).start() returned True: a new handler with
\* empty buffers, its inlet flushed, its pull thread running
NewHandlerStarted(d) ==
    /\ srcq' = [srcq EXCEPT ![d] = <<>>]
    /\ produced' = [produced EXCEPT ![d] = 0]
    /\ srcAlive' = [srcAlive EXCEPT ![d] = TRUE]
    /\ hphase' = [hphase EXCEPT ![d] = "started"]
    /\ inlet' = [inlet EXCEPT ![d] = TRUE]
    /\ sample_rate' = [sample_rate EXCEPT ![d] = PipeRate]
    /\ rolling_buffers' = [rolling_buffers EXCEPT ![d] =
                             [c \in Range(channel_names) |-> <<>>]]
    /\ timestamps_buffer' = [timestamps_buffer EXCEPT ![d] = <<>>]
    /\ ts_maxlen' = [ts_maxlen EXCEPT ![d] = MaxSamples(PipeRate)]
    /\ recording_buffer' = [recording_buffer EXCEPT ![d] = <<>>]
    /\ running' = [running EXCEPT ![d] = TRUE]
    /\ lock' = [lock EXCEPT ![d] = "free"]
    /\ ppc' = [ppc EXCEPT ![d] = "loop"]
    /\ chunk' = [chunk EXCEPT ![d] = <<>>]
    /\ pidx' = [pidx EXCEPT ![d] = 1]
    /\ stopc' = [stopc EXCEPT ![d] = "idle"]
    /\ flushMark' = [flushMark EXCEPT ![d] = 0]
    /\ nCh' = [nCh EXCEPT ![d] = [c \in Range(channel_names) |-> 0]]
    /\ nTs' = [nTs EXCEPT ![d] = 0]
    /\ nRec' = [nRec EXCEPT ![d] = 0]
    /\ UNCHANGED obs

\* the rest of connect_device once the stream was found: the handler is
\* stored; with a session active add_device_to_session, which
\* SessionManager does not define, raises; for the first device a new
\* RateController is created and started, and the call of
\* ui_broadcast_loop with four arguments raises before a task exists; for
\* a further device the controller keeps the dict it already shares
ConnectStore(d) ==
    /\ NewHandlerStarted(d)
    /\ stream_handlers' = stream_handlers \cup {d}
    /\ conn_pc' = [conn_pc EXCEPT ![d] = "idle"]
    /\ conn_polls' = [conn_polls EXCEPT ![d] = @ + 1]
    /\ UNCHANGED connected_processes
    /\ IF current_session.active
       THEN /\ conn_ret' = [conn_ret EXCEPT ![d] = "error"]
            /\ UNCHANGED <<rc_exists, rc_running, latest_metrics, nthreads,
                           cpc, committed>>
       ELSE IF stream_handlers = {}
            THEN /\ conn_ret' = [conn_ret EXCEPT ![d] = "error"]
                 /\ rc_exists' = TRUE
                 /\ rc_running' = TRUE
                 /\ latest_metrics' = EmptyMap
                 /\ committed' = EmptyMap
                 /\ nthreads' = nthreads + 1
                 /\ cpc' = [cpc EXCEPT ![nthreads + 1] = "loop"]
            ELSE /\ conn_ret' = [conn_ret EXCEPT ![d] = "ok"]
                 /\ UNCHANGED <<rc_exists, rc_running, latest_metrics,
                                nthreads, cpc, committed>>
    /\ UNCHANGED <<ctl, metrics_lock, citer, cidx, fill_ratio, device_data,
                   new_metrics, upd_left, upc, snapshot, now>>
    /\ UNCHANGED <<evars, svars, sent, rvars, shut, tlog>>

\* one attempt of the polling loop after asyncio.sleep(poll_interval);
\* resolved tells whether resolve_byprop found the stream.  The calc
\* thread of an earlier controller has left its loop, as after the join of
\* RateController.stop()
ConnectPoll(d, resolved) ==
    /\ shut = "up"
    /\ conn_pc[d] = "polling"
    /\ conn_polls[d] < MaxPolls
    /\ IF resolved
       THEN /\ stream_handlers = {} /\ ~current_session.active
                => /\ nthreads < MaxCalcThreads
                   /\ \A t \in CalcThreads : cpc[t] \in {"none", "exit"}
                   /\ ctl = "idle"
            /\ ConnectStore(d)
       ELSE IF conn_polls[d] + 1 < MaxPolls
            THEN ConnectRetry(d)
            ELSE ConnectTimeout(d)

\* ------------------------------------------------------------------------
\* Connect specification: a server with no device connected; connect and
\* disconnect requests for every device, a session started and stopped
\* ------------------------------------------------------------------------

ConnectNext ==
    \/ \E d \in Devices : ConnectBegin(d)
    \/ \E d \in Devices : \E resolved \in BOOLEAN : ConnectPoll(d, resolved)
    \/ \E d \in Devices : Disconnect(d)
    \/ StartSession("quick_test", StreamDevices)
    \/ StopSession
    \/ StopRecordingStep
    \/ StopSessionReturn

SpecConnect == StreamInit /\ [][ConnectNext]_vars

\* a step of a connect request for d that does not store a handler
ConnectStepWithoutHandler(d) ==
    /\ \/ conn_pc'[d] # conn_pc[d]
       \/ conn_polls'[d] # conn_polls[d]
       \/ conn_ret'[d] # conn_ret[d]
    /\ d \notin stream_handlers'

\* C26: a connect whose stream is not resolved by any attempt of the
\* polling loop ends with the failure of the timeout branch and without
\* the subprocess of the device, and no step of it changes the stream
\* handlers, the rate controller and its calc threads, the publish task or
\* the session with its device list
C26_ConnectUnavailable ==
    /\ [][\A d \in Devices :
            ConnectStepWithoutHandler(d) =>
                /\ UNCHANGED <<hvars, stream_handlers, rc_exists, rc_running,
                               nthreads, cpc, latest_metrics, upc,
                               current_session>>
                /\ conn_pc[d] = "polling" /\ conn_pc'[d] = "idle"
                      => /\ conn_ret'[d] = "timeout"
                         /\ conn_polls'[d] = MaxPolls
                         /\ d \notin connected_processes']_vars
    /\ [](\A d \in Devices :
            conn_ret[d] = "timeout" =>
                /\ d \notin connected_processes
                /\ d \notin stream_handlers)

C26_Witness ==
    \E d \in Devices :
        /\ conn_ret[d] = "timeout"
        /\ conn_polls[d] = MaxPolls
        /\ stream_handlers = Devices \ {d}
        /\ rc_exists
        /\ current_session.active

\* ------------------------------------------------------------------------
\* Handler specification with the pull thread scheduled: the thread takes
\* its next step whenever it has one
\* ------------------------------------------------------------------------

\* one step of the pull thread of d
PullStep(d) ==
    \/ PullLoopCheck(d)
    \/ \E raises \in BOOLEAN : PullChunk(d, raises)
    \/ PullAcquire(d)
    \/ PullExtendChannel(d)
    \/ PullExtendTimestamps(d)
    \/ PullExtendRecording(d)
    \/ PullRelease(d)
    \/ PullSleep(d)

SpecStreamLive ==
    SpecStream /\ \A d \in StreamDevices : WF_vars(PullStep(d))

\* an iteration of the pull loop of d ends in the except branch
PullFails(d) == ppc[d] = "pull" /\ ppc'[d] = "backoff"

\* C27: an iteration of the pull loop that raises leaves the buffers and
\* the running flag as they were and goes on to the next iteration; and
\* when from some point on every iteration raises, without end, the
\* handler does not stay running for ever; running is what
\* get_stream_info reports as is_running, and it reports no other health
\* field
C27_IngestErrorEscalation ==
    /\ [][\A d \in Devices :
            PullFails(d) =>
                UNCHANGED <<rolling_buffers, timestamps_buffer,
                            recording_buffer, running, nCh, nTs,
                            nRec>>]_vars
    /\ \A d \in StreamDevices :
          (/\ <>[](ppc[d] \notin {"acquire", "sleep"})
           /\ []<>(ppc[d] = "backoff"))
              => []<>(~running[d])

\* ------------------------------------------------------------------------
\* MultiScaleProcessor.compute_trend
\* ------------------------------------------------------------------------

\* largest value of the metric, in tenths
MaxRelaxation == 22

\* the keys process_multi_timescale gives its results
TimescaleKeys == {"1s", "2s", "4s"}

\* the result of one timescale: a dict with the metric (alpha / beta, which
\* is never negative) or without it
TrendRecords ==
    {[k \in {"relaxation"} |-> v] : v \in 0..MaxRelaxation} \cup {EmptyMap}

\* the arguments timescale_results of compute_trend
TrendInputs == UNION {[K -> TrendRecords] : K \in SUBSET TimescaleKeys}

\* dict.get(key, default)
Get(dict, key, default) == IF key \in DOMAIN dict THEN dict[key] ELSE default

\* the mutation of C28: the comparison not strict
SignificantlyAboveOrEqual(x, y) == 100 * x >= 105 * y

\* x > y * (1 + threshold) with threshold = 0.05
SignificantlyAbove(x, y) == 100 * x > 105 * y

\* x < y * (1 - threshold) with threshold = 0.05
SignificantlyBelow(x, y) == 100 * x < 95 * y

\* compute_trend(timescale_results, metric)
compute_trend(timescale_results, metric) ==
    IF \/ "1s" \notin DOMAIN timescale_results
       \/ "2s" \notin DOMAIN timescale_results
       \/ "4s" \notin DOMAIN timescale_results
    THEN "UNKNOWN"
    ELSE LET fast == Get(timescale_results["1s"], metric, 0)
             balanced == Get(timescale_results["2s"], metric, 0)
             stable == Get(timescale_results["4s"], metric, 0)
         IN  IF /\ SignificantlyAbove(fast, balanced)
                /\ SignificantlyAbove(balanced, stable)
             THEN "IMPROVING"
             ELSE IF /\ SignificantlyBelow(fast, balanced)
                     /\ SignificantlyBelow(balanced, stable)
                  THEN "DECLINING"
                  ELSE "STABLE"

\* one call of compute_trend on the argument held in e_input; the return
\* value is held in e_results
TrendCall ==
    /\ e_pc = "idle"
    /\ e_results' = compute_trend(e_input, "relaxation")
    /\ e_pc' = "done"
    /\ UNCHANGED <<hvars, cvars, svars, sent, rvars, lvars, e_input,
                   e_timescale, e_fut>>

\* ------------------------------------------------------------------------
\* Trend specification: one call of compute_trend for every argument
\* ------------------------------------------------------------------------

TrendInit ==
    /\ HandlerInit
    /\ NoController
    /\ e_input \in TrendInputs
    /\ e_timescale = 2
    /\ e_fut = <<>>
    /\ e_results = EmptyMap
    /\ e_pc = "idle"
    /\ SessionIdle
    /\ sent = NothingSent
    /\ RecorderIdle
    /\ LifeIdle

TrendNext == TrendCall

SpecTrend == TrendInit /\ [][TrendNext]_vars

\* the metric of one timescale of the argument, 0 when the record lacks it
MetricOf(key) == Get(e_input[key], "relaxation", 0)

PipeFairness ==
    /\ \A d \in StreamDevices : WF_vars(PullIteration(d))
    /\ WF_vars(CalcStep(1))
    /\ WF_vars(PubStep)

SpecPipeLive == SpecPipe /\ PipeFairness

\* C29: a buffer lock taken by a read of the handler (or by the pull
\* thread) is released again, so no thread waits for it for ever
C29_ReadsReleaseLock ==
    \A d \in Devices : lock[d] # "free" ~> lock[d] = "free"

\* ------------------------------------------------------------------------
\* End-to-end specification: a server with no device connected; connect
\* requests for every device, the source and the pull thread of one
\* device and the calc thread, all scheduled, with the feature computation
\* able to succeed in every tick.  The broadcast loop has no step here:
\* connect_device is the only place that creates its task, and there the
\* call of ui_broadcast_loop raises before a task exists
\* ------------------------------------------------------------------------

\* the feature computation succeeds for every device gathered in the tick
CalcProcessAll(t) ==
    CalcProcess(t, DevicesOf(device_data[t]), DevicesOf(device_data[t]),
                DevicesOf(device_data[t]))

EndToEndNext ==
    \/ \E d \in Devices : ConnectBegin(d)
    \/ \E d \in Devices : \E resolved \in BOOLEAN : ConnectPoll(d, resolved)
    \/ \E d \in StreamDevices : Produce(d)
    \/ \E d \in StreamDevices : PullIteration(d)
    \/ CalcStep(1)

EndToEndFairness ==
    /\ \A d \in StreamDevices : WF_vars(Produce(d))
    /\ \A d \in StreamDevices : WF_vars(PullIteration(d))
    /\ WF_vars(CalcStep(1))
    /\ SF_vars(CalcProcessAll(1))

SpecEndToEnd == StreamInit /\ [][EndToEndNext]_vars /\ EndToEndFairness

\* connect_device has stored a handler for d and returned success
ConnectedThroughConnect(d) ==
    d \in stream_handlers /\ conn_ret[d] = "ok"

\* the device was connected through connect_device and a frame for it is
\* in the slot (the first half of C30)
C30_FrameWritten ==
    \A d \in StreamDevices :
        ConnectedThroughConnect(d) ~> d \in DOMAIN latest_metrics

\* C30: a device connected through connect_device whose samples keep
\* arriving gets a frame in the slot, and a frame in the slot is followed
\* by a message with a frame of the device handed to the subscribers
C30_EndToEndProgress ==
    \A d \in StreamDevices :
        /\ ConnectedThroughConnect(d) ~> d \in DOMAIN latest_metrics
        /\ (ConnectedThroughConnect(d) /\ d \in DOMAIN latest_metrics)
              ~> (sent.any /\ d \in Range(sent.frames))

\* C31: a change of the handler map during a tick never sends the tick
\* into its except branch, and a device already gathered in the tick is not
\* dropped before the tick has processed it
C31_DeviceSetChangeDuringTick ==
    /\ [][\A t \in CalcThreads :
            cpc'[t] = "backoff" => cpc[t] = "backoff"]_vars
    /\ [][\A t \in CalcThreads :
            cpc[t] \in {"fill", "data", "backoff"} =>
                \A d \in DevicesOf(device_data[t]) :
                    d \in DevicesOf(device_data'[t])]_vars

\* the calc threads that have been started and have not left _calc_loop
LiveCalcThreads == {t \in CalcThreads : cpc[t] \notin {"none", "exit"}}

\* C32: after any sequence of start() and stop() calls of the
\* RateController, a stop() whose join timed out included, at most one calc
\* thread is inside _calc_loop (the handlers of the model have one pull
\* thread each; the statement is made for the compute side)
C32_SingleWorker == Cardinality(LiveCalcThreads) <= 1

\* C33: whenever no stop_session is under way, the recorder is recording
\* if and only if a session is active, and a recording recorder has the
\* session id of the active session
C33_SessionRecorderConsistency ==
    stop_pc = "idle" =>
        /\ is_recording <=> current_session.active
        /\ is_recording => session_id = current_session.id

\* C34: whenever no connect request is under way (a disconnect request is
\* one step), a running RateController and a publish task exist if and only
\* if a stream handler is registered; the controller reads the handler map
\* itself, being built on the dict of main.py
C34_PipelineFollowsDevices ==
    (\A d \in Devices : conn_pc[d] = "idle") =>
        ((rc_exists /\ rc_running /\ upc # "none") <=> stream_handlers # {})

\* the slot entry of device d is written or replaced in this step
SlotEntryChanges(d) ==
    /\ d \in DOMAIN latest_metrics'
    /\ d \in DOMAIN latest_metrics => latest_metrics'[d] # latest_metrics[d]

\* C35: the frames a tick builds are those of the devices that have a
\* result in each of the three timescale computations of the tick, the
\* three records of a frame are computed from the data gathered in that
\* tick, and a slot entry changes only to the frame the tick under way has
\* built for the device, so that a device without a new frame keeps its
\* entry
C35_FrameCompleteness ==
    /\ [][\A t \in CalcThreads :
            \A results_4s, results_1s, results_2s \in SUBSET Devices :
                (/\ CalcProcess(t, results_4s, results_1s, results_2s)
                 /\ device_data[t] # <<>>)
                    => DOMAIN new_metrics'[t] =
                          {d \in DevicesOf(device_data[t]) :
                              /\ d \in results_1s
                              /\ d \in results_2s
                              /\ d \in results_4s}]_vars
    /\ [](\A t \in CalcThreads :
            \A d \in DOMAIN new_metrics[t] :
                /\ d \in DevicesOf(device_data[t])
                /\ LET data == ItemOf(device_data[t], d).data
                   IN  /\ new_metrics[t][d].frontal_1s =
                             FrontalRecord(data, 2)
                       /\ new_metrics[t][d].frontal_2s =
                             FrontalRecord(data, 4)
                       /\ new_metrics[t][d].frontal_4s =
                             FrontalRecord(data, 8))
    /\ [][\A d \in Devices :
            /\ d \in DOMAIN latest_metrics => d \in DOMAIN latest_metrics'
            /\ SlotEntryChanges(d) =>
                   \E t \in CalcThreads :
                       /\ cpc[t] = "update"
                       /\ d \in DOMAIN new_metrics[t]
                       /\ latest_metrics'[d] = new_metrics[t][d]]_vars

\* a tick that gathered both devices and built a frame for Muse_2 only has
\* written it, and the entry of Muse_1 is the frame of an earlier tick
C35_Witness ==
    /\ cpc[1] = "release"
    /\ DevicesOf(device_data[1]) = Devices
    /\ DOMAIN new_metrics[1] = {"Muse_2"}
    /\ DOMAIN latest_metrics = Devices
    /\ latest_metrics["Muse_2"] = new_metrics[1]["Muse_2"]
    /\ latest_metrics["Muse_1"].timestamp #
          latest_metrics["Muse_2"].timestamp
    /\ latest_metrics["Muse_1"] = committed["Muse_1"]

\* the record r covers the last n samples of the signal
SuffixOf(r, signal, n) ==
    /\ r.samples = n
    /\ r.left = <<signal[Len(signal) - n + 1], signal[Len(signal)]>>
    /\ r.right = r.left

\* C36: an item of device_data is the result of one get_recent_data(4.0)
\* call (made with the buffer lock free, the call holding it throughout),
\* a device has at most one item per tick, no step of another thread
\* changes an item, and the 1 s, 2 s and 4 s records of every frame of the
\* tick cover the last 1 s, 2 s and 4 s of that item, so they end at the
\* same sample
C36_OneSnapshotPerTick ==
    /\ [][\A t \in CalcThreads :
            device_data'[t] # device_data[t] =>
                \/ device_data'[t] = <<>>
                \/ /\ cpc[t] = "data"
                   /\ lock[citer[t][cidx[t]]] = "free"
                   /\ device_data'[t] =
                         Append(device_data[t],
                                [device |-> citer[t][cidx[t]],
                                 data |->
                                    RecentData(citer[t][cidx[t]],
                                               4 * sample_rate[
                                                      citer[t][cidx[t]]]
                                              ).data])]_vars
    /\ [](\A t \in CalcThreads :
            /\ Cardinality(DevicesOf(device_data[t])) = Len(device_data[t])
            /\ \A d \in DOMAIN new_metrics[t] :
                  LET snap == ItemOf(device_data[t], d).data["AF7"]
                      f == new_metrics[t][d]
                  IN  /\ Len(snap) = 4 * ProcessorRate
                      /\ SuffixOf(f.frontal_1s, snap, 1 * ProcessorRate)
                      /\ SuffixOf(f.frontal_2s, snap, 2 * ProcessorRate)
                      /\ SuffixOf(f.frontal_4s, snap, 4 * ProcessorRate))
    /\ [](\A d \in DOMAIN latest_metrics :
            LET f == latest_metrics[d]
            IN  /\ f.frontal_1s.left[2] = f.frontal_4s.left[2]
                /\ f.frontal_2s.left[2] = f.frontal_4s.left[2])

\* the pull thread has appended samples to the ring of Muse_1 after the
\* tick took its snapshot, and the tick has built the frame of Muse_1
C36_Witness ==
    /\ cpc[1] = "acquire"
    /\ "Muse_1" \in DOMAIN new_metrics[1]
    /\ timestamps_buffer["Muse_1"][Len(timestamps_buffer["Muse_1"])] >
          new_metrics[1]["Muse_1"].frontal_4s.left[2]
    /\ new_metrics[1]["Muse_1"].frontal_1s.left[1] >
          new_metrics[1]["Muse_1"].frontal_4s.left[1]

\* ------------------------------------------------------------------------
\* Phase specification: one connected device; start_session called with a
\* built-in or an unknown protocol and any set of device names, pause,
\* resume, stop and the periodic update_phase call
\* ------------------------------------------------------------------------

PhaseNext ==
    \/ \E protocol \in DOMAIN BuiltinProtocols \cup {"unknown"} :
          \E devs \in SUBSET Devices : StartSession(protocol, devs)
    \/ PauseSession
    \/ ResumeSession
    \/ \E elapsed \in BOOLEAN : UpdatePhase(elapsed)
    \/ StopSession
    \/ StopRecordingStep
    \/ StopSessionReturn

SpecPhase == SessionInit /\ [][PhaseNext]_vars

\* the number of phases of the protocol of the current session
PhaseCount == Len(PhaseNames[current_session.protocol])

C38_PauseSticky ==
    [][(current_phase = "paused" /\ current_phase' # "paused")
          => (ResumeSession \/ StopSessionReturn)]_vars

\* C39: resume_session returns True only for a PAUSED session, and the
\* phase a resume_session restores right after a pause_session is the
\* phase the session had when it was paused
C39_PauseResumeRoundTrip ==
    /\ [][(ResumeSession /\ session_ret' = "True")
            => (current_session.active /\ current_phase = "paused")]_vars
    /\ [][(/\ PauseSession
           /\ current_session.active
           /\ current_phase # "paused")
            => PhaseOnResume(PhaseNames[current_session'.protocol]
                                       [phase_index' + 1]) =
                  current_phase]_vars

\* the arguments fail one of the validations of start_session
InvalidStart(protocol, devs) ==
    \/ protocol \notin DOMAIN BuiltinProtocols
    \/ Cardinality(devs) \notin 1..4
    \/ \E d \in devs : d \notin stream_handlers

====
